---- MODULE Spec2Model ----
(***************************************************************************)
(* A model of the t87s cache engine (CacheEngine in src/src/duration.ts,   *)
(* lines 31-282), its tag serialisation (src/src/tags.ts) and the          *)
(* in-memory storage adapter (src/unnamed/part_010, lines 451-526).        *)
(*                                                                         *)
(* Every `await` of the source is a suspension point: a handler is cut     *)
(* into one action per await, and the synchronous code between two awaits  *)
(* is one atomic step.  A storage call takes effect in the step in which   *)
(* its result is delivered.  Strings whose characters matter (tag          *)
(* segments, cache keys) are sequences of one-character strings.           *)
(***************************************************************************)
EXTENDS Integers, Sequences, FiniteSets, TLC

(***************************************************************************)
(* Bounds of the model.                                                    *)
(***************************************************************************)
\* The clock runs from 0 to MaxTime.
MaxTime == 2
\* Number of query calls issued in one behaviour.
NumCalls == 2
\* Number of invalidate calls issued in one behaviour.
MaxInvalidations == 1

Calls == 1..NumCalls

(***************************************************************************)
(* Optional / nullable values of the source: undefined, false, null, or a  *)
(* number.                                                                 *)
(***************************************************************************)
Undefined == [kind |-> "undefined", n |-> 0]
False == [kind |-> "false", n |-> 0]
Null == [kind |-> "null", n |-> 0]
Num(n) == [kind |-> "number", n |-> n]
IsNum(x) == x.kind = "number"

(***************************************************************************)
(* Tags (src/src/tags.ts).                                                 *)
(***************************************************************************)
\* The sentinel segment '__exact__' of exact invalidation.
EXACT == <<"_", "_", "e", "x", "a", "c", "t", "_", "_">>

\* str.replace(/c/g, rep) on a sequence of characters.
RECURSIVE ReplaceAll(_, _, _)
ReplaceAll(str, c, rep) ==
  IF str = <<>> THEN <<>>
  ELSE (IF Head(str) = c THEN rep ELSE <<Head(str)>>) \o ReplaceAll(Tail(str), c, rep)

\* part.replace(/\\/g, '\\\\').replace(/:/g, '\\:')
EscapePart(part) ==
  ReplaceAll(ReplaceAll(part, "\\", <<"\\", "\\">>), ":", <<"\\", ":">>)

\* parts.join(':')
RECURSIVE Join(_)
Join(parts) ==
  IF parts = <<>> THEN <<>>
  ELSE IF Len(parts) = 1 THEN parts[1]
  ELSE parts[1] \o <<":">> \o Join(Tail(parts))

serializeTag(tag) == Join([i \in 1..Len(tag) |-> EscapePart(tag[i])])

\* The loop of deserializeTag: i is the (1-based) position in key.
RECURSIVE deserializeLoop(_, _, _, _)
deserializeLoop(key, i, current, parts) ==
  IF i > Len(key) THEN Append(parts, current)
  ELSE IF key[i] = "\\" /\ i + 1 <= Len(key)
       THEN deserializeLoop(key, i + 2, Append(current, key[i + 1]), parts)
  ELSE IF key[i] = ":"
       THEN deserializeLoop(key, i + 1, <<>>, Append(parts, current))
  ELSE deserializeLoop(key, i + 1, Append(current, key[i]), parts)

deserializeTag(key) == deserializeLoop(key, 1, <<>>, <<>>)

isTagPrefix(prefix, tag) ==
  IF Len(prefix) > Len(tag) THEN FALSE
  ELSE \A i \in 1..Len(prefix) : tag[i] = prefix[i]

\* entryTag.slice(0, len)
Slice(tag, len) == SubSeq(tag, 1, len)

\* [...tag, '__exact__']
ExactTag(tag) == Append(tag, EXACT)

\* Tag segments used by the model's callers.
SegA == <<"a">>
SegB == <<"b">>

\* options.tags of the query calls of Spec: the one tag ['a', 'b'].
QueryTagLists == { << <<SegA, SegB>> >> }

\* The tags handed to invalidate in Spec: a proper prefix of the queries' tag.
InvalidateTags == { <<SegA>> }

\* options.tags of the query calls of SpecTags: a tag, a proper extension of
\* it, and the extension whose last segment is '__exact__'.
TagQueryTagLists ==
  { << <<SegA>> >>, << <<SegA, SegB>> >>, << <<SegA, EXACT>> >> }

\* The tags handed to invalidate in SpecTags.
TagInvalidateTags == { <<SegA>>, <<SegB>>, <<SegA, SegB>>, <<SegA, EXACT>> }

(***************************************************************************)
(* Engine configuration and call options.                                  *)
(***************************************************************************)
\* this.prefix ?? 't87s'
DefaultPrefix == <<"t", "8", "7", "s">>
UserKey == <<"k">>

\* `${this.prefix}:${options.key}`
CacheKey(prefix, key) == prefix \o <<":">> \o key

\* parseDuration of a number is the number.
parseDuration(value) == value.n

\* CacheEngineOptions after the constructor: prefix, defaultTtl (ms),
\* defaultGrace (false or ms), verifyPercent (in percent), and whether the
\* adapter has reportVerification.
Configs ==
  [ prefix : {DefaultPrefix},
    defaultTtl : {1},
    defaultGrace : {False},
    verifyPercent : {50},
    report : {TRUE} ]

\* The engines of SpecGrace: defaultGrace false or a duration.
GraceConfigs ==
  [ prefix : {DefaultPrefix},
    defaultTtl : {1},
    defaultGrace : {False, Num(1)},
    verifyPercent : {50},
    report : {TRUE} ]

\* The engines of SpecVerify: verifyPercent 0, 0.5 or 1, on an adapter with
\* or without reportVerification.
VerifyConfigs ==
  [ prefix : {DefaultPrefix},
    defaultTtl : {1},
    defaultGrace : {False},
    verifyPercent : {0, 50, 100},
    report : BOOLEAN ]

\* The engine of SpecTags: an adapter without reportVerification.
TagConfigs ==
  [ prefix : {DefaultPrefix},
    defaultTtl : {MaxTime + 1},
    defaultGrace : {False},
    verifyPercent : {50},
    report : {FALSE} ]

\* QueryOptions: key, tags, ttl, grace (fn is the one loader of the model).
QueryOptionSet ==
  [ key : {UserKey},
    tags : QueryTagLists,
    ttl : {Undefined},
    grace : {False, Num(1)} ]

\* The QueryOptions of SpecTags: entries that outlive the clock, no grace.
TagQueryOptionSet ==
  [ key : {UserKey},
    tags : TagQueryTagLists,
    ttl : {Undefined},
    grace : {Undefined} ]

\* Math.random() in percent.
RandomDraws == {0, 99}

(***************************************************************************)
(* State.                                                                  *)
(***************************************************************************)
VARIABLES
  clock,             \* Date.now()
  config,            \* the engine's options
  cache,             \* MemoryAdapter.cache: cache key -> CacheEntry
  tagInvalidations,  \* MemoryAdapter.tagInvalidations: serialized tag -> ms
  inFlight,          \* CacheEngine.inFlight: cache key -> completer call
  call,              \* the query calls
  bg,                \* the background task each call may have spawned
  inval,             \* the invalidate call in progress
  loadEpoch,         \* per loader invocation: invalidate calls returned, called before it
  invCount,          \* number of invalidate calls issued so far
  codec,             \* a tag path under serializeTag and deserializeTag
  tagTree            \* a schema, the tree createTagBuilder made of it, a navigation

vars == <<clock, config, cache, tagInvalidations, inFlight, call, bg, inval,
          loadEpoch, invCount, codec, tagTree>>

\* No tag path is being serialized, no tag tree has been built.
NoCodec == [pc |-> "none"]
NoTree == [pc |-> "none"]

\* Number of loader invocations so far; the n-th invocation returns n.
loads == Len(loadEpoch)

\* Number of invalidate calls that have returned.
InvDone == invCount - (IF inval.pc = "write" THEN 1 ELSE 0)

\* What a loader invocation records in loadEpoch: how many invalidate calls
\* have returned, and how many have been called, when it is invoked.
LoadStamp == [done |-> InvDone, called |-> invCount]

\* A settled or pending promise: st is "pending", "ok" or "err"; v is the
\* value, or the number of the loader invocation that raised.
Pending == [st |-> "pending", v |-> 0]
Fulfilled(v) == [st |-> "ok", v |-> v]
Rejected(e) == [st |-> "err", v |-> e]

NoOptions == [key |-> <<>>, tags |-> <<>>, ttl |-> Undefined, grace |-> Undefined]

EmptyMap == [x \in {} |-> 0]

\* A query call: its position, the locals of query, getOrFetch and
\* fetchAndCache, and what the call has seen and done (history).
IdleCall ==
  [ pc |-> "idle",        \* idle, get, stale, load, set, settled, joined, done
    opts |-> NoOptions,
    cacheKey |-> <<>>,
    prom |-> 0,           \* the call whose getOrFetch promise this call awaits
    now |-> 0,            \* getOrFetch's now
    cached |-> Null,      \* getOrFetch's cached
    idx |-> 0,            \* position of isEntryStale in its reads
    fnow |-> 0,           \* fetchAndCache's now
    value |-> 0,          \* the number of the loader invocation awaited
    path |-> "none",      \* branch taken: fresh, grace, fetch, suppressed
    outcome |-> Pending,  \* the getOrFetch promise
    result |-> Pending,   \* the promise query returned
    during |-> 0,         \* history: the call whose getOrFetch ran at the start
    invoked |-> 0,        \* history: loader invocations made by this call
    seenInv |-> 0,        \* history: invalidate calls returned before the start
    instance |-> 0,       \* history: the instance the call was made on (SpecPrefix)
    clearedInv |-> 0 - 1, \* history: invalidate calls issued before the clear()
                          \* this call followed at once, -1 if it followed none
    snap |-> EmptyMap ]   \* history: tagInvalidations at the start

NoTask ==
  [ pc |-> "none",        \* none, load, set, report, done, failed
    kind |-> "none",      \* refresh, verify
    cacheKey |-> <<>>,
    opts |-> NoOptions,
    fnow |-> 0,
    value |-> 0,
    cachedValue |-> 0 ]

IdleInval == [pc |-> "idle", now |-> 0, tag |-> <<>>, exact |-> FALSE]

\* The state after construction: new CacheEngine({adapter: new MemoryAdapter()}).
Init ==
  /\ clock = 0
  /\ config \in Configs
  /\ cache = EmptyMap
  /\ tagInvalidations = EmptyMap
  /\ inFlight = EmptyMap
  /\ call = [c \in Calls |-> IdleCall]
  /\ bg = [c \in Calls |-> NoTask]
  /\ inval = IdleInval
  /\ loadEpoch = <<>>
  /\ invCount = 0
  /\ codec = NoCodec
  /\ tagTree = NoTree

(***************************************************************************)
(* The storage adapter (MemoryAdapter).                                    *)
(***************************************************************************)
\* Map.set
MapSet(map, k, v) == [x \in DOMAIN map \cup {k} |-> IF x = k THEN v ELSE map[x]]
\* Map.delete
MapDelete(map, k) == [x \in DOMAIN map \ {k} |-> map[x]]

\* adapter.get(key)
AdapterGet(key) == IF key \in DOMAIN cache THEN cache[key] ELSE Null

\* this.tagInvalidations.get(serializeTag(tag)) ?? null, on the table `table`
TagTimeIn(table, tag) ==
  IF serializeTag(tag) \in DOMAIN table THEN Num(table[serializeTag(tag)]) ELSE Null

\* adapter.getTagInvalidationTime(tag)
GetTagInvalidationTime(tag) == TagTimeIn(tagInvalidations, tag)

\* A timestamp write that keeps an older timestamp instead of overwriting it.
SetTagInvalidationTime_KeepFirst(tag, timestamp) ==
  IF serializeTag(tag) \in DOMAIN tagInvalidations THEN tagInvalidations
  ELSE MapSet(tagInvalidations, serializeTag(tag), timestamp)

\* adapter.setTagInvalidationTime(tag, timestamp)
SetTagInvalidationTime(tag, timestamp) ==
  MapSet(tagInvalidations, serializeTag(tag), timestamp)

(***************************************************************************)
(* CacheEngine: the pure parts of isEntryStale, shouldVerify, getOrFetch   *)
(* and fetchAndCache.                                                      *)
(***************************************************************************)
\* Reads that leave out the exact marker.
TagReads_NoExact(entryTag) ==
  [len \in 1..Len(entryTag) |-> Slice(entryTag, len)]

\* The tags isEntryStale reads for one entry tag, in the order it reads them:
\* the exact marker first, then every prefix of length 1 .. entryTag.length.
TagReads(entryTag) ==
  <<ExactTag(entryTag)>> \o [len \in 1..Len(entryTag) |-> Slice(entryTag, len)]

\* The reads of isEntryStale over entry.tags.
RECURSIVE StaleReads(_)
StaleReads(tags) ==
  IF tags = <<>> THEN <<>> ELSE TagReads(Head(tags)) \o StaleReads(Tail(tags))

\* An invalidation check that lets a same-millisecond invalidation pass.
Invalidates_Strict(invalidation, entry) ==
  invalidation # Null /\ invalidation.n > entry.createdAt

\* invalidation !== null && invalidation >= entry.createdAt
Invalidates(invalidation, entry) ==
  invalidation # Null /\ invalidation.n >= entry.createdAt

\* isEntryStale(entry) when no write falls between its reads: the value it
\* returns on the table `table`.
isEntryStale(table, entry) ==
  \E i \in 1..Len(StaleReads(entry.tags)) :
    Invalidates(TagTimeIn(table, StaleReads(entry.tags)[i]), entry)

\* A fresh-hit test that lets entries expire a millisecond early.
IsFreshHit_Early(isStale, cached, now) == ~isStale /\ cached.expiresAt > now + 1

\* !isStale && cached.expiresAt > now
IsFreshHit(isStale, cached, now) == ~isStale /\ cached.expiresAt > now

\* A grace test that serves stale only entries past their TTL.
InGrace_Expired(cached, now) ==
  cached.graceUntil # Null /\ cached.graceUntil.n > now /\ cached.expiresAt <= now

\* cached.graceUntil !== null && cached.graceUntil > now
InGrace(cached, now) == cached.graceUntil # Null /\ cached.graceUntil.n > now

\* A grace test that still serves the entry at the instant its grace ends.
GraceUsable_Inclusive(staleEntry, now) ==
  staleEntry # Null /\ staleEntry.graceUntil # Null /\ staleEntry.graceUntil.n >= now

\* staleEntry && staleEntry.graceUntil !== null && staleEntry.graceUntil > now
GraceUsable(staleEntry, now) ==
  staleEntry # Null /\ staleEntry.graceUntil # Null /\ staleEntry.graceUntil.n > now

\* A classification that serves stale only entries past their TTL.
Classify_GracePastTtl(isStale, cached, now) ==
  IF IsFreshHit(isStale, cached, now) THEN "fresh"
  ELSE IF InGrace_Expired(cached, now) THEN "grace"
  ELSE "fetch"

\* The branch getOrFetch takes on a cached entry: "fresh" (fresh hit),
\* "grace" (stale within grace) or "fetch" (outside grace).
Classify(isStale, cached, now) ==
  IF IsFreshHit(isStale, cached, now) THEN "fresh"
  ELSE IF InGrace(cached, now) THEN "grace"
  ELSE "fetch"

\* A sampling decision that does not look for adapter.reportVerification.
shouldVerify_AnyAdapter(r) ==
  IF config.verifyPercent <= 0 THEN FALSE
  ELSE IF config.verifyPercent >= 100 THEN TRUE
  ELSE r < config.verifyPercent

\* shouldVerify(), r being the draw of Math.random() in percent
shouldVerify(r) ==
  IF ~config.report THEN FALSE
  ELSE IF config.verifyPercent <= 0 THEN FALSE
  ELSE IF config.verifyPercent >= 100 THEN TRUE
  ELSE r < config.verifyPercent

\* parseDuration(options.ttl ?? this.defaultTtl)
TtlOf(opts) ==
  IF opts.ttl = Undefined THEN config.defaultTtl ELSE parseDuration(opts.ttl)

\* options.grace === false || options.grace === undefined
\*   ? this.defaultGrace : parseDuration(options.grace)
GraceOf(opts) ==
  IF opts.grace = False \/ opts.grace = Undefined
  THEN config.defaultGrace
  ELSE Num(parseDuration(opts.grace))

\* A fetchAndCache entry stamped with the clock at the time of the write.
NewEntry_AtWrite(value, opts, now) ==
  [ value |-> value,
    tags |-> opts.tags,
    createdAt |-> clock,
    expiresAt |-> clock + TtlOf(opts),
    graceUntil |-> IF GraceOf(opts) = False THEN Null
                   ELSE Num(clock + TtlOf(opts) + GraceOf(opts).n) ]

\* The entry fetchAndCache builds from the loaded value.
NewEntry(value, opts, now) ==
  [ value |-> value,
    tags |-> opts.tags,
    createdAt |-> now,
    expiresAt |-> now + TtlOf(opts),
    graceUntil |-> IF GraceOf(opts) = False THEN Null
                   ELSE Num(now + TtlOf(opts) + GraceOf(opts).n) ]

\* A coalescer lookup that never finds the in-flight promise.
InFlightGet_Miss(cacheKey) == 0

\* this.inFlight.get(cacheKey): the completer registered for the key, or 0.
InFlightGet(cacheKey) ==
  IF cacheKey \in DOMAIN inFlight THEN inFlight[cacheKey] ELSE 0

(***************************************************************************)
(* query.                                                                  *)
(***************************************************************************)
\* The calls whose getOrFetch is running for cacheKey.
Running(cacheKey) ==
  { d \in Calls : call[d].cacheKey = cacheKey
                  /\ call[d].pc \in {"get", "stale", "load", "set"} }

\* query up to its first await: join the in-flight promise, or start
\* getOrFetch (which reads the clock and calls adapter.get) and register it.
QueryStart(c, opts) ==
  /\ call[c].pc = "idle"
  /\ \A d \in Calls : d < c => call[d].pc # "idle"
  /\ LET cacheKey == CacheKey(config.prefix, opts.key)
         during == IF Running(cacheKey) = {} THEN 0
                   ELSE CHOOSE d \in Running(cacheKey) : TRUE
     IN IF InFlightGet(cacheKey) # 0
        THEN /\ call' = [call EXCEPT ![c] =
                  [@ EXCEPT !.pc = "joined", !.cacheKey = cacheKey,
                            !.prom = InFlightGet(cacheKey),
                            !.during = during, !.seenInv = InvDone]]
             /\ UNCHANGED inFlight
        ELSE /\ call' = [call EXCEPT ![c] =
                  [@ EXCEPT !.pc = "get", !.opts = opts, !.cacheKey = cacheKey,
                            !.prom = c, !.now = clock,
                            !.during = during, !.seenInv = InvDone,
                            !.snap = tagInvalidations]]
             /\ inFlight' = MapSet(inFlight, cacheKey, c)
  /\ UNCHANGED <<codec, tagTree, clock, config, cache, tagInvalidations, bg, inval, loadEpoch,
                 invCount>>

\* The record of a call whose getOrFetch promise settled: its locals are dead.
Settled(cl, path, outcome) ==
  [ IdleCall EXCEPT !.pc = "settled", !.cacheKey = cl.cacheKey, !.prom = cl.prom,
                    !.path = path, !.outcome = outcome, !.during = cl.during,
                    !.invoked = cl.invoked, !.seenInv = cl.seenInv,
                    !.clearedInv = cl.clearedInv ]

\* The record of a background task that ended.
Ended(task, pc) == [ NoTask EXCEPT !.pc = pc, !.kind = task.kind ]

\* The synchronous fetchAndCache(cacheKey, options, cached) up to its await:
\* it reads the clock and calls the loader.
StartFetch(cl) ==
  [ cl EXCEPT !.pc = "load", !.path = "fetch", !.fnow = clock,
              !.value = loads + 1, !.invoked = cl.invoked + 1,
              !.snap = EmptyMap ]

\* A spawn that forgets the grace option of the query.
Spawn_DefaultOptions(kind, cl) ==
  [ pc |-> "load", kind |-> kind, cacheKey |-> cl.cacheKey,
    opts |-> [cl.opts EXCEPT !.grace = Undefined],
    fnow |-> IF kind = "refresh" THEN clock ELSE 0,
    value |-> loads + 1, cachedValue |-> cl.cached.value ]

\* A background task as it is spawned: fetchAndCache(cacheKey, options) of
\* refreshInBackground, or runVerification(cacheKey, options.fn, cached.value);
\* both call the loader before they first await.
Spawn(kind, cl) ==
  [ pc |-> "load", kind |-> kind, cacheKey |-> cl.cacheKey, opts |-> cl.opts,
    fnow |-> IF kind = "refresh" THEN clock ELSE 0,
    value |-> loads + 1, cachedValue |-> cl.cached.value ]

\* A getOrFetch that starts no second refresh while one is running for the key.
Decide_OneRefresh(c, cl, isStale, r) ==
  IF IsFreshHit(isStale, cl.cached, cl.now)
  THEN IF shouldVerify(r)
       THEN /\ call' = [call EXCEPT ![c] =
                 Settled([cl EXCEPT !.invoked = cl.invoked + 1], "fresh",
                         Fulfilled(cl.cached.value))]
            /\ bg' = [bg EXCEPT ![c] = Spawn("verify", cl)]
            /\ loadEpoch' = Append(loadEpoch, LoadStamp)
       ELSE /\ call' = [call EXCEPT ![c] =
                 Settled(cl, "fresh", Fulfilled(cl.cached.value))]
            /\ UNCHANGED <<bg, loadEpoch>>
  ELSE IF InGrace(cl.cached, cl.now)
  THEN IF \E t \in Calls : /\ bg[t].kind = "refresh" /\ bg[t].pc \in {"load", "set"}
                           /\ bg[t].cacheKey = cl.cacheKey
       THEN /\ call' = [call EXCEPT ![c] =
                 Settled(cl, "grace", Fulfilled(cl.cached.value))]
            /\ UNCHANGED <<bg, loadEpoch>>
       ELSE /\ call' = [call EXCEPT ![c] =
                 Settled([cl EXCEPT !.invoked = cl.invoked + 1], "grace",
                         Fulfilled(cl.cached.value))]
            /\ bg' = [bg EXCEPT ![c] = Spawn("refresh", cl)]
            /\ loadEpoch' = Append(loadEpoch, LoadStamp)
  ELSE /\ call' = [call EXCEPT ![c] = StartFetch(cl)]
       /\ loadEpoch' = Append(loadEpoch, LoadStamp)
       /\ UNCHANGED bg

\* getOrFetch after isEntryStale returned isStale, up to its next await; cl is
\* the call's record, r the draw of Math.random().
Decide(c, cl, isStale, r) ==
  IF IsFreshHit(isStale, cl.cached, cl.now)
  THEN \* fresh hit: maybe start a verification, return cached.value
       IF shouldVerify(r)
       THEN /\ call' = [call EXCEPT ![c] =
                 Settled([cl EXCEPT !.invoked = cl.invoked + 1], "fresh",
                         Fulfilled(cl.cached.value))]
            /\ bg' = [bg EXCEPT ![c] = Spawn("verify", cl)]
            /\ loadEpoch' = Append(loadEpoch, LoadStamp)
       ELSE /\ call' = [call EXCEPT ![c] =
                 Settled(cl, "fresh", Fulfilled(cl.cached.value))]
            /\ UNCHANGED <<bg, loadEpoch>>
  ELSE IF InGrace(cl.cached, cl.now)
  THEN \* stale within grace: refreshInBackground, return cached.value
       /\ call' = [call EXCEPT ![c] =
            Settled([cl EXCEPT !.invoked = cl.invoked + 1], "grace",
                    Fulfilled(cl.cached.value))]
       /\ bg' = [bg EXCEPT ![c] = Spawn("refresh", cl)]
       /\ loadEpoch' = Append(loadEpoch, LoadStamp)
  ELSE \* outside grace: fetch synchronously
       /\ call' = [call EXCEPT ![c] = StartFetch(cl)]
       /\ loadEpoch' = Append(loadEpoch, LoadStamp)
       /\ UNCHANGED bg

\* adapter.get returns: a miss goes to fetchAndCache, a hit to isEntryStale.
AdapterGetDone(c) ==
  /\ call[c].pc = "get"
  /\ LET cached == AdapterGet(call[c].cacheKey)
         cl == [call[c] EXCEPT !.cached = cached]
     IN IF cached = Null
        THEN /\ call' = [call EXCEPT ![c] = StartFetch(cl)]
             /\ loadEpoch' = Append(loadEpoch, LoadStamp)
             /\ UNCHANGED bg
        ELSE IF StaleReads(cached.tags) = <<>>
        THEN \E r \in RandomDraws : Decide(c, cl, FALSE, r)
        ELSE /\ call' = [call EXCEPT ![c] = [cl EXCEPT !.pc = "stale", !.idx = 1]]
             /\ UNCHANGED <<bg, loadEpoch>>
  /\ UNCHANGED <<codec, tagTree, clock, config, cache, tagInvalidations, inFlight, inval, invCount>>

\* One adapter.getTagInvalidationTime of isEntryStale returns.
StaleRead(c) ==
  /\ call[c].pc = "stale"
  /\ LET cl == call[c]
         reads == StaleReads(cl.cached.tags)
         invalidation == GetTagInvalidationTime(reads[cl.idx])
     IN IF Invalidates(invalidation, cl.cached)
        THEN \E r \in RandomDraws : Decide(c, cl, TRUE, r)
        ELSE IF cl.idx < Len(reads)
        THEN /\ call' = [call EXCEPT ![c] = [cl EXCEPT !.idx = cl.idx + 1]]
             /\ UNCHANGED <<bg, loadEpoch>>
        ELSE \E r \in RandomDraws : Decide(c, cl, FALSE, r)
  /\ UNCHANGED <<codec, tagTree, clock, config, cache, tagInvalidations, inFlight, inval, invCount>>

\* A catch that serves any stale entry, whatever its grace.
OnLoaderError_AnyStale(cl) ==
  IF cl.cached # Null
  THEN Settled(cl, "suppressed", Fulfilled(cl.cached.value))
  ELSE Settled(cl, "fetch", Rejected(cl.value))

\* A catch that calls the loader once more.
OnLoaderError_Retry(cl) ==
  [cl EXCEPT !.pc = "load", !.invoked = cl.invoked + 1]

\* The catch of fetchAndCache: the graced stale value, or the error.
OnLoaderError(cl) ==
  IF GraceUsable(cl.cached, cl.fnow)
  THEN Settled(cl, "suppressed", Fulfilled(cl.cached.value))
  ELSE Settled(cl, "fetch", Rejected(cl.value))

\* The loader of the synchronous fetchAndCache returns or raises.
LoaderDone(c, ok) ==
  /\ call[c].pc = "load"
  /\ call' = [call EXCEPT ![c] =
       IF ok THEN [@ EXCEPT !.pc = "set"] ELSE OnLoaderError(call[c])]
  /\ UNCHANGED <<codec, tagTree, clock, config, cache, tagInvalidations, inFlight, bg, inval,
                 loadEpoch, invCount>>

\* adapter.set of the synchronous fetchAndCache returns.
AdapterSetDone(c) ==
  /\ call[c].pc = "set"
  /\ cache' = MapSet(cache, call[c].cacheKey,
                     NewEntry(call[c].value, call[c].opts, call[c].fnow))
  /\ call' = [call EXCEPT ![c] =
       Settled(call[c], "fetch", Fulfilled(call[c].value))]
  /\ UNCHANGED <<codec, tagTree, clock, config, tagInvalidations, inFlight, bg, inval, loadEpoch,
                 invCount>>

\* A release that clears the key only when the promise was fulfilled.
Release_OnSuccess(c) ==
  /\ call[c].pc = "settled"
  /\ inFlight' = IF call[c].outcome.st = "ok"
                 THEN MapDelete(inFlight, call[c].cacheKey) ELSE inFlight
  /\ call' = [call EXCEPT ![c] = [@ EXCEPT !.pc = "done", !.result = call[c].outcome]]
  /\ UNCHANGED <<codec, tagTree, clock, config, cache, tagInvalidations, bg, inval, loadEpoch,
                 invCount>>

\* The error of a rejected adapter.set for the value of loader invocation n
\* (loader errors are numbered n, write errors -n).
WriteError(n) == 0 - n

\* The catch of fetchAndCache when adapter.set rejected: the same catch.
OnWriteError(cl) == OnLoaderError([cl EXCEPT !.value = WriteError(cl.value)])

\* adapter.set of the synchronous fetchAndCache rejects (an adapter whose
\* writes can fail, such as the cloud adapter's HTTP request); nothing is stored.
AdapterSetFail(c) ==
  /\ call[c].pc = "set"
  /\ call' = [call EXCEPT ![c] = OnWriteError(call[c])]
  /\ UNCHANGED <<codec, tagTree, clock, config, cache, tagInvalidations, inFlight, bg, inval,
                 loadEpoch, invCount>>

\* A release that waits for the background task the call spawned.
Release_AfterTask(c) ==
  /\ call[c].pc = "settled"
  /\ bg[c].pc \notin {"load", "set", "report"}
  /\ inFlight' = MapDelete(inFlight, call[c].cacheKey)
  /\ call' = [call EXCEPT ![c] = [@ EXCEPT !.pc = "done", !.result = call[c].outcome]]
  /\ UNCHANGED <<codec, tagTree, clock, config, cache, tagInvalidations, bg, inval, loadEpoch,
                 invCount>>

\* The completer's `await promise` returns: finally deletes the key.
Release(c) ==
  /\ call[c].pc = "settled"
  /\ inFlight' = MapDelete(inFlight, call[c].cacheKey)
  /\ call' = [call EXCEPT ![c] = [@ EXCEPT !.pc = "done", !.result = call[c].outcome]]
  /\ UNCHANGED <<codec, tagTree, clock, config, cache, tagInvalidations, bg, inval, loadEpoch,
                 invCount>>

\* A joiner that returns as soon as the promise it joined has settled.
JoinerDone_Early(c) ==
  /\ call[c].pc = "joined"
  /\ call[call[c].prom].pc \in {"settled", "done"}
  /\ call' = [call EXCEPT ![c] =
       [@ EXCEPT !.pc = "done", !.result = call[call[c].prom].outcome]]
  /\ UNCHANGED <<codec, tagTree, clock, config, cache, tagInvalidations, inFlight, bg, inval,
                 loadEpoch, invCount>>

\* A joiner's promise follows the in-flight promise it returned.  The
\* completer's reaction was registered first, so it has run by then.
JoinerDone(c) ==
  /\ call[c].pc = "joined"
  /\ call[call[c].prom].pc = "done"
  /\ call' = [call EXCEPT ![c] =
       [@ EXCEPT !.pc = "done", !.result = call[call[c].prom].outcome]]
  /\ UNCHANGED <<codec, tagTree, clock, config, cache, tagInvalidations, inFlight, bg, inval,
                 loadEpoch, invCount>>

(***************************************************************************)
(* Background tasks: refreshInBackground and runVerification.              *)
(***************************************************************************)
\* The loader of a background task returns or raises.
BgLoaderDone(c, ok) ==
  /\ bg[c].pc = "load"
  /\ bg' = [bg EXCEPT ![c] =
       IF ~ok THEN Ended(bg[c], "failed")
       ELSE [@ EXCEPT !.pc = IF bg[c].kind = "refresh" THEN "set" ELSE "report"]]
  /\ UNCHANGED <<codec, tagTree, clock, config, cache, tagInvalidations, inFlight, call, inval,
                 loadEpoch, invCount>>

\* A background refresh whose write is dropped.
BgSetDone_Dropped(c) ==
  /\ bg[c].pc = "set"
  /\ bg' = [bg EXCEPT ![c] = Ended(bg[c], "done")]
  /\ UNCHANGED <<codec, tagTree, clock, config, cache, tagInvalidations, inFlight, call, inval,
                 loadEpoch, invCount>>

\* A background write that keeps a stored entry of later created_at.
BgSetDone_IfNewer(c) ==
  /\ bg[c].pc = "set"
  /\ cache' = IF AdapterGet(bg[c].cacheKey) # Null
                 /\ AdapterGet(bg[c].cacheKey).createdAt > bg[c].fnow
              THEN cache
              ELSE MapSet(cache, bg[c].cacheKey,
                          NewEntry(bg[c].value, bg[c].opts, bg[c].fnow))
  /\ bg' = [bg EXCEPT ![c] = Ended(bg[c], "done")]
  /\ UNCHANGED <<codec, tagTree, clock, config, tagInvalidations, inFlight, call, inval, loadEpoch,
                 invCount>>

\* adapter.set of a background refresh returns.
BgSetDone(c) ==
  /\ bg[c].pc = "set"
  /\ cache' = MapSet(cache, bg[c].cacheKey,
                     NewEntry(bg[c].value, bg[c].opts, bg[c].fnow))
  /\ bg' = [bg EXCEPT ![c] = Ended(bg[c], "done")]
  /\ UNCHANGED <<codec, tagTree, clock, config, tagInvalidations, inFlight, call, inval, loadEpoch,
                 invCount>>

\* A failed background write that also evicts the stored entry.
BgSetFail_Evicts(c) ==
  /\ bg[c].pc = "set"
  /\ bg' = [bg EXCEPT ![c] = Ended(bg[c], "failed")]
  /\ cache' = MapDelete(cache, bg[c].cacheKey)
  /\ UNCHANGED <<codec, tagTree, clock, config, tagInvalidations, inFlight, call, inval,
                 loadEpoch, invCount>>

\* adapter.set of a background refresh rejects: refreshInBackground's catch
\* swallows the error; nothing is stored.
BgSetFail(c) ==
  /\ bg[c].pc = "set"
  /\ bg' = [bg EXCEPT ![c] = Ended(bg[c], "failed")]
  /\ UNCHANGED <<codec, tagTree, clock, config, cache, tagInvalidations, inFlight, call, inval,
                 loadEpoch, invCount>>

\* A verification that stores the value it loaded.
BgReportDone_Stores(c) ==
  /\ bg[c].pc = "report"
  /\ cache' = MapSet(cache, bg[c].cacheKey,
                     NewEntry(bg[c].value, bg[c].opts, clock))
  /\ bg' = [bg EXCEPT ![c] = Ended(bg[c], "done")]
  /\ UNCHANGED <<codec, tagTree, clock, config, tagInvalidations, inFlight, call, inval, loadEpoch,
                 invCount>>

\* adapter.reportVerification of a verification returns or raises.
BgReportDone(c) ==
  /\ bg[c].pc = "report"
  /\ bg' = [bg EXCEPT ![c] = Ended(bg[c], "done")]
  /\ UNCHANGED <<codec, tagTree, clock, config, cache, tagInvalidations, inFlight, call, inval,
                 loadEpoch, invCount>>

(***************************************************************************)
(* invalidate, clear and the clock.                                        *)
(***************************************************************************)
\* invalidate([tag], exact) up to its await: reads the clock.
InvalidateStart(tag, exact) ==
  /\ inval.pc = "idle"
  /\ invCount < MaxInvalidations
  /\ inval' = [pc |-> "write", now |-> clock, tag |-> tag, exact |-> exact]
  /\ invCount' = invCount + 1
  /\ UNCHANGED <<codec, tagTree, clock, config, cache, tagInvalidations, inFlight, call, bg,
                 loadEpoch>>

\* The tag invalidate writes: exact ? [...tag, '__exact__'] : tag
InvalidationTag(tag, exact) == IF exact THEN ExactTag(tag) ELSE tag

\* adapter.setTagInvalidationTime returns, and invalidate with it.
InvalidateWrite ==
  /\ inval.pc = "write"
  /\ tagInvalidations' =
       SetTagInvalidationTime(InvalidationTag(inval.tag, inval.exact), inval.now)
  /\ inval' = IdleInval
  /\ UNCHANGED <<codec, tagTree, clock, config, cache, inFlight, call, bg, loadEpoch, invCount>>

\* A caller runs `await invalidate([tag], exact); await invalidate([tag], exact)`.
\* The first call up to its await: reads the clock.
InvalidatePairStart(tag, exact) ==
  /\ inval.pc = "idle"
  /\ invCount < MaxInvalidations
  /\ inval' = [pc |-> "first", now |-> clock, tag |-> tag, exact |-> exact]
  /\ invCount' = invCount + 1
  /\ UNCHANGED <<codec, tagTree, clock, config, cache, tagInvalidations, inFlight, call, bg,
                 loadEpoch>>

\* The first call's write returns; the caller at once calls invalidate again,
\* which reads the clock.
InvalidatePairFirstWrite ==
  /\ inval.pc = "first"
  /\ tagInvalidations' =
       SetTagInvalidationTime(InvalidationTag(inval.tag, inval.exact), inval.now)
  /\ inval' = [inval EXCEPT !.pc = "again", !.now = clock]
  /\ UNCHANGED <<codec, tagTree, clock, config, cache, inFlight, call, bg, loadEpoch, invCount>>

\* The second call's write returns.
InvalidatePairSecondWrite ==
  /\ inval.pc = "again"
  /\ tagInvalidations' =
       SetTagInvalidationTime(InvalidationTag(inval.tag, inval.exact), inval.now)
  /\ inval' = IdleInval
  /\ UNCHANGED <<codec, tagTree, clock, config, cache, inFlight, call, bg, loadEpoch, invCount>>

\* clear(): adapter.clear()
Clear ==
  /\ cache # EmptyMap \/ tagInvalidations # EmptyMap
  /\ cache' = EmptyMap
  /\ tagInvalidations' = EmptyMap
  /\ UNCHANGED <<codec, tagTree, clock, config, inFlight, call, bg, inval, loadEpoch, invCount>>

\* A caller runs `await clear(); query(opts)`: adapter.clear(), and the start
\* of the query once clear has returned.
ClearThenQuery(c, opts) ==
  /\ call[c].pc = "idle"
  /\ \A d \in Calls : d < c => call[d].pc # "idle"
  /\ cache' = EmptyMap
  /\ tagInvalidations' = EmptyMap
  /\ LET cacheKey == CacheKey(config.prefix, opts.key)
         during == IF Running(cacheKey) = {} THEN 0
                   ELSE CHOOSE d \in Running(cacheKey) : TRUE
     IN IF InFlightGet(cacheKey) # 0
        THEN /\ call' = [call EXCEPT ![c] =
                  [@ EXCEPT !.pc = "joined", !.cacheKey = cacheKey,
                            !.prom = InFlightGet(cacheKey),
                            !.during = during, !.seenInv = InvDone,
                            !.clearedInv = invCount]]
             /\ UNCHANGED inFlight
        ELSE /\ call' = [call EXCEPT ![c] =
                  [@ EXCEPT !.pc = "get", !.opts = opts, !.cacheKey = cacheKey,
                            !.prom = c, !.now = clock,
                            !.during = during, !.seenInv = InvDone,
                            !.clearedInv = invCount,
                            !.snap = EmptyMap]]
             /\ inFlight' = MapSet(inFlight, cacheKey, c)
  /\ UNCHANGED <<codec, tagTree, clock, config, bg, inval, loadEpoch, invCount>>

\* Time passes.
Tick ==
  /\ clock < MaxTime
  /\ clock' = clock + 1
  /\ UNCHANGED <<codec, tagTree, config, cache, tagInvalidations, inFlight, call, bg, inval,
                 loadEpoch, invCount>>

\* The wall clock is set back (Date.now() is not monotonic).
ClockBack ==
  /\ clock > 0
  /\ clock' = clock - 1
  /\ UNCHANGED <<codec, tagTree, config, cache, tagInvalidations, inFlight, call, bg, inval,
                 loadEpoch, invCount>>

(***************************************************************************)
(* The primitives: get, set and del of createPrimitives.  Their calls use  *)
(* the call records; invalidate and clear are the same code as the         *)
(* engine's.                                                               *)
(***************************************************************************)
\* SetOptions: tags, ttl and grace of primitives.set
SetOptionSet ==
  [ key : {UserKey},
    tags : QueryTagLists,
    ttl : {Num(1), Num(0 - 1)},
    grace : {Undefined, False, Num(1)} ]

\* The values passed to primitives.set.
SetValues == {1, 2}

\* What get returns for "absent": null.
Absent == Fulfilled(0)

\* setOptions.grace === false ? false : parseDuration(setOptions.grace ?? 0)
SetGraceOf(sopts) ==
  IF sopts.grace = False THEN False
  ELSE IF sopts.grace = Undefined THEN Num(parseDuration(Num(0)))
  ELSE Num(parseDuration(sopts.grace))

\* The entry primitives.set builds.
SetEntry(value, sopts, now) ==
  [ value |-> value,
    tags |-> sopts.tags,
    createdAt |-> now,
    expiresAt |-> now + parseDuration(sopts.ttl),
    graceUntil |-> IF SetGraceOf(sopts) = False THEN Null
                   ELSE Num(now + parseDuration(sopts.ttl) + SetGraceOf(sopts).n) ]

\* set(key, value, setOptions) up to its await: reads the clock, builds the
\* entry and calls adapter.set.
PrimSetStart(c, sopts, v) ==
  /\ call[c].pc = "idle"
  /\ \A d \in Calls : d < c => call[d].pc # "idle"
  /\ call' = [call EXCEPT ![c] =
       [@ EXCEPT !.pc = "pset", !.path = "set", !.opts = sopts,
                 !.cacheKey = CacheKey(config.prefix, sopts.key),
                 !.fnow = clock, !.value = v, !.seenInv = InvDone]]
  /\ UNCHANGED <<codec, tagTree, clock, config, cache, tagInvalidations, inFlight, bg, inval,
                 loadEpoch, invCount>>

\* adapter.set returns, and set with it.
PrimSetDone(c) ==
  /\ call[c].pc = "pset"
  /\ cache' = MapSet(cache, call[c].cacheKey,
                     SetEntry(call[c].value, call[c].opts, call[c].fnow))
  /\ call' = [call EXCEPT ![c] = [@ EXCEPT !.pc = "pdone", !.result = Absent]]
  /\ UNCHANGED <<codec, tagTree, clock, config, tagInvalidations, inFlight, bg, inval, loadEpoch,
                 invCount>>

\* A set call for cacheKey whose adapter.set has not returned, or 0.
PendingSet(cacheKey) ==
  IF \E d \in Calls : call[d].pc = "pset" /\ call[d].cacheKey = cacheKey
  THEN CHOOSE d \in Calls : call[d].pc = "pset" /\ call[d].cacheKey = cacheKey
  ELSE 0

\* get(key) up to its await: calls adapter.get.
PrimGetStart(c, key) ==
  /\ call[c].pc = "idle"
  /\ \A d \in Calls : d < c => call[d].pc # "idle"
  /\ call' = [call EXCEPT ![c] =
       [@ EXCEPT !.pc = "pget", !.path = "get",
                 !.cacheKey = CacheKey(config.prefix, key),
                 !.during = PendingSet(CacheKey(config.prefix, key)),
                 !.seenInv = InvDone, !.snap = tagInvalidations]]
  /\ UNCHANGED <<codec, tagTree, clock, config, cache, tagInvalidations, inFlight, bg, inval,
                 loadEpoch, invCount>>

\* The record of a get call that returned at time now.
GetReturned(cl, now, result) ==
  [ IdleCall EXCEPT !.pc = "pdone", !.path = "get", !.cacheKey = cl.cacheKey,
                    !.now = now, !.result = result, !.seenInv = cl.seenInv ]

\* A grace test of get that ignores the grace window.
ExpiredBeyondGrace_NoGrace(entry, now) == entry.expiresAt <= now

\* entry.expiresAt <= now && (entry.graceUntil === null || entry.graceUntil <= now)
ExpiredBeyondGrace(entry, now) ==
  entry.expiresAt <= now
  /\ (entry.graceUntil = Null \/ entry.graceUntil.n <= now)

\* A get that deletes the entry it finds expired beyond its grace.
PrimGetEntry_Evicts(c) ==
  /\ call[c].pc = "pget"
  /\ LET entry == AdapterGet(call[c].cacheKey)
     IN /\ call' = [call EXCEPT ![c] =
             IF entry = Null THEN GetReturned(call[c], clock, Absent)
             ELSE IF ExpiredBeyondGrace(entry, clock)
             THEN GetReturned(call[c], clock, Absent)
             ELSE [@ EXCEPT !.pc = "pstale", !.cached = entry, !.idx = 1, !.now = clock]]
        /\ cache' = IF entry # Null /\ ExpiredBeyondGrace(entry, clock)
                    THEN MapDelete(cache, call[c].cacheKey) ELSE cache
  /\ UNCHANGED <<codec, tagTree, clock, config, tagInvalidations, inFlight, bg, inval,
                 loadEpoch, invCount>>

\* adapter.get returns in get: a miss or an entry expired beyond its grace
\* returns null; otherwise isEntryStale starts.
PrimGetEntry(c) ==
  /\ call[c].pc = "pget"
  /\ LET entry == AdapterGet(call[c].cacheKey)
     IN call' = [call EXCEPT ![c] =
          IF entry = Null THEN GetReturned(call[c], clock, Absent)
          ELSE IF ExpiredBeyondGrace(entry, clock)
          THEN GetReturned(call[c], clock, Absent)
          ELSE IF StaleReads(entry.tags) = <<>>
          THEN GetReturned(call[c], clock, Fulfilled(entry.value))
          ELSE [@ EXCEPT !.pc = "pstale", !.cached = entry, !.idx = 1, !.now = clock]]
  /\ UNCHANGED <<codec, tagTree, clock, config, cache, tagInvalidations, inFlight, bg, inval,
                 loadEpoch, invCount>>

\* One adapter.getTagInvalidationTime of get's isEntryStale returns.
PrimGetStale(c) ==
  /\ call[c].pc = "pstale"
  /\ LET cl == call[c]
         reads == StaleReads(cl.cached.tags)
         invalidation == GetTagInvalidationTime(reads[cl.idx])
     IN call' = [call EXCEPT ![c] =
          IF Invalidates(invalidation, cl.cached) THEN GetReturned(cl, cl.now, Absent)
          ELSE IF cl.idx < Len(reads) THEN [cl EXCEPT !.idx = cl.idx + 1]
          ELSE GetReturned(cl, cl.now, Fulfilled(cl.cached.value))]
  /\ UNCHANGED <<codec, tagTree, clock, config, cache, tagInvalidations, inFlight, bg, inval,
                 loadEpoch, invCount>>

\* del(key): adapter.delete
PrimDel(key) ==
  /\ CacheKey(config.prefix, key) \in DOMAIN cache
  /\ cache' = MapDelete(cache, CacheKey(config.prefix, key))
  /\ UNCHANGED <<codec, tagTree, clock, config, tagInvalidations, inFlight, call, bg, inval,
                 loadEpoch, invCount>>

(***************************************************************************)
(* Specifications.                                                         *)
(***************************************************************************)
\* The steps of the query calls.
QuerySteps ==
  \/ \E c \in Calls : AdapterGetDone(c)
  \/ \E c \in Calls : StaleRead(c)
  \/ \E c \in Calls, ok \in BOOLEAN : LoaderDone(c, ok)
  \/ \E c \in Calls : AdapterSetDone(c)
  \/ \E c \in Calls : Release(c)
  \/ \E c \in Calls : JoinerDone(c)

\* The steps of the background tasks.
BgSteps ==
  \/ \E c \in Calls, ok \in BOOLEAN : BgLoaderDone(c, ok)
  \/ \E c \in Calls : BgSetDone(c)
  \/ \E c \in Calls : BgReportDone(c)

Next ==
  \/ \E c \in Calls, opts \in QueryOptionSet : QueryStart(c, opts)
  \/ QuerySteps
  \/ BgSteps
  \/ \E tag \in InvalidateTags : InvalidateStart(tag, FALSE)
  \/ InvalidateWrite
  \/ Clear
  \/ Tick

\* One engine on a memory adapter, a non-decreasing clock.
Spec == Init /\ [][Next]_vars

\* SpecTags starts after a first query, issued at time 0 with some tags, has
\* stored its entry and returned.
InitTags ==
  /\ clock = 0
  /\ config \in TagConfigs
  /\ \E opts \in TagQueryOptionSet :
       cache = MapSet(EmptyMap, CacheKey(config.prefix, opts.key),
                      NewEntry(1, opts, 0))
  /\ tagInvalidations = EmptyMap
  /\ inFlight = EmptyMap
  /\ call = [c \in Calls |-> IdleCall]
  /\ bg = [c \in Calls |-> NoTask]
  /\ inval = IdleInval
  /\ loadEpoch = <<[done |-> 0, called |-> 0]>>
  /\ invCount = 0
  /\ codec = NoCodec
  /\ tagTree = NoTree

NextTags ==
  \/ \E c \in Calls, opts \in TagQueryOptionSet : QueryStart(c, opts)
  \/ QuerySteps
  \/ \E tag \in TagInvalidateTags, exact \in BOOLEAN : InvalidateStart(tag, exact)
  \/ InvalidateWrite
  \/ Tick

\* Queries and invalidations over several tags, hierarchical and exact, on an
\* adapter without reportVerification; entries outlive the clock.
SpecTags == InitTags /\ [][NextTags]_vars

\* The steps of Spec, and the wall clock stepping back.
NextSkew ==
  \/ Next
  \/ ClockBack

\* As Spec, under a wall clock that may be set back while calls run.
SpecSkew == Init /\ [][NextSkew]_vars

\* The state after a first query, issued at time 0, has stored its entry and
\* returned.
InitStored ==
  /\ clock = 0
  /\ config \in Configs
  /\ \E opts \in QueryOptionSet :
       cache = MapSet(EmptyMap, CacheKey(config.prefix, opts.key),
                      NewEntry(1, opts, 0))
  /\ tagInvalidations = EmptyMap
  /\ inFlight = EmptyMap
  /\ call = [c \in Calls |-> IdleCall]
  /\ bg = [c \in Calls |-> NoTask]
  /\ inval = IdleInval
  /\ loadEpoch = <<[done |-> 0, called |-> 0]>>
  /\ invCount = 0
  /\ codec = NoCodec
  /\ tagTree = NoTree

\* As Spec from a stored entry; the memory adapter's set, once called, returns.
SpecFair ==
  InitStored /\ [][Next]_vars /\ \A c \in Calls : WF_vars(BgSetDone(c))

\* The steps of SpecSkew, and storage writes that fail.
NextIO ==
  \/ NextSkew
  \/ \E c \in Calls : AdapterSetFail(c)
  \/ \E c \in Calls : BgSetFail(c)

\* One engine on an adapter whose set may reject, under a wall clock that may
\* be set back while calls run.
SpecIO == Init /\ [][NextIO]_vars

NextPrim ==
  \/ \E c \in Calls, sopts \in SetOptionSet, v \in SetValues : PrimSetStart(c, sopts, v)
  \/ \E c \in Calls : PrimSetDone(c)
  \/ \E c \in Calls : PrimGetStart(c, UserKey)
  \/ \E c \in Calls : PrimGetEntry(c)
  \/ \E c \in Calls : PrimGetStale(c)
  \/ PrimDel(UserKey)
  \/ \E tag \in InvalidateTags : InvalidateStart(tag, FALSE)
  \/ InvalidateWrite
  \/ Clear
  \/ Tick

\* The primitives get, set, del, invalidate and clear on a memory adapter.
SpecPrim == Init /\ [][NextPrim]_vars

NextIdem ==
  \/ \E c \in Calls, opts \in TagQueryOptionSet : QueryStart(c, opts)
  \/ QuerySteps
  \/ \E tag \in TagInvalidateTags, exact \in BOOLEAN : InvalidatePairStart(tag, exact)
  \/ InvalidatePairFirstWrite
  \/ InvalidatePairSecondWrite
  \/ Tick

\* As SpecTags, with every invalidate call made twice in a row.
SpecIdem == InitTags /\ [][NextIdem]_vars

\* The state after construction, with or without a default grace.
InitGrace ==
  /\ clock = 0
  /\ config \in GraceConfigs
  /\ cache = EmptyMap
  /\ tagInvalidations = EmptyMap
  /\ inFlight = EmptyMap
  /\ call = [c \in Calls |-> IdleCall]
  /\ bg = [c \in Calls |-> NoTask]
  /\ inval = IdleInval
  /\ loadEpoch = <<>>
  /\ invCount = 0
  /\ codec = NoCodec
  /\ tagTree = NoTree

\* As Spec, for engines constructed with defaultGrace false or a duration.
SpecGrace == InitGrace /\ [][Next]_vars

NextClear ==
  \/ Next
  \/ \E c \in Calls, opts \in QueryOptionSet : ClearThenQuery(c, opts)

\* As Spec, with callers that query as soon as their clear() has returned.
SpecClear == Init /\ [][NextClear]_vars

(***************************************************************************)
(* serializeTag and deserializeTag as a program of their own: a tag path   *)
(* is serialized, then the key is deserialized: codec holds the path, the  *)
(* key and the parts.                                                      *)
(***************************************************************************)
MaxSegLen == 2
MaxPathLen == 2
CodecChars == {"a", ":", "\\"}

SeqsUpTo(S, n) == UNION { [1..k -> S] : k \in 0..n }

\* Tag paths: string[] with empty segments, colons and backslashes.
CodecPaths == SeqsUpTo(SeqsUpTo(CodecChars, MaxSegLen), MaxPathLen)

InitCodec ==
  /\ clock = 0
  /\ config \in Configs
  /\ cache = EmptyMap
  /\ tagInvalidations = EmptyMap
  /\ inFlight = EmptyMap
  /\ call = [c \in Calls |-> IdleCall]
  /\ bg = [c \in Calls |-> NoTask]
  /\ inval = IdleInval
  /\ loadEpoch = <<>>
  /\ invCount = 0
  /\ codec \in [pc : {"path"}, tag : CodecPaths, key : {<<>>}, parts : {<<>>}]
  /\ tagTree = NoTree

\* key = serializeTag(tag)
SerializeTag ==
  /\ codec.pc = "path"
  /\ codec' = [codec EXCEPT !.pc = "key", !.key = serializeTag(codec.tag)]
  /\ UNCHANGED <<tagTree, clock, config, cache, tagInvalidations, inFlight, call,
                 bg, inval, loadEpoch, invCount>>

\* parts = deserializeTag(key)
DeserializeTag ==
  /\ codec.pc = "key"
  /\ codec' = [codec EXCEPT !.pc = "parts", !.parts = deserializeTag(codec.key)]
  /\ UNCHANGED <<tagTree, clock, config, cache, tagInvalidations, inFlight, call,
                 bg, inval, loadEpoch, invCount>>

NextCodec == SerializeTag \/ DeserializeTag

SpecCodec == InitCodec /\ [][NextCodec]_vars

(***************************************************************************)
(* The freshness evaluation of getOrFetch on its own: one stored entry and *)
(* fixed tag-invalidation timestamps; each call reads the clock, the entry *)
(* and the timestamps and records the branch getOrFetch would take.        *)
(***************************************************************************)
\* The timestamp tables: none, or one for the first segment of the tag.
ClassifyTables ==
  {EmptyMap} \cup { MapSet(EmptyMap, serializeTag(<<SegA>>), t) : t \in 0..MaxTime }

InitClassify ==
  /\ clock = 0
  /\ config \in GraceConfigs
  /\ \E opts \in QueryOptionSet, created \in 0..1 :
       cache = MapSet(EmptyMap, CacheKey(config.prefix, opts.key),
                      NewEntry(1, opts, created))
  /\ tagInvalidations \in ClassifyTables
  /\ inFlight = EmptyMap
  /\ call = [c \in Calls |-> IdleCall]
  /\ bg = [c \in Calls |-> NoTask]
  /\ inval = IdleInval
  /\ loadEpoch = <<[done |-> 0, called |-> 0]>>
  /\ invCount = 0
  /\ codec = NoCodec
  /\ tagTree = NoTree

\* getOrFetch up to its decision, without acting on it.
Evaluate(c) ==
  /\ call[c].pc = "idle"
  /\ \A d \in Calls : d < c => call[d].pc # "idle"
  /\ LET cacheKey == CacheKey(config.prefix, UserKey)
         cached == AdapterGet(cacheKey)
     IN call' = [call EXCEPT ![c] =
          [@ EXCEPT !.pc = "classified", !.cacheKey = cacheKey, !.now = clock,
                    !.cached = cached,
                    !.path = Classify(isEntryStale(tagInvalidations, cached),
                                      cached, clock)]]
  /\ UNCHANGED <<codec, tagTree, clock, config, cache, tagInvalidations, inFlight, bg, inval,
                 loadEpoch, invCount>>

NextClassify == (\E c \in Calls : Evaluate(c)) \/ Tick

SpecClassify == InitClassify /\ [][NextClassify]_vars

InitVerify ==
  /\ clock = 0
  /\ config \in VerifyConfigs
  /\ cache = EmptyMap
  /\ tagInvalidations = EmptyMap
  /\ inFlight = EmptyMap
  /\ call = [c \in Calls |-> IdleCall]
  /\ bg = [c \in Calls |-> NoTask]
  /\ inval = IdleInval
  /\ loadEpoch = <<>>
  /\ invCount = 0
  /\ codec = NoCodec
  /\ tagTree = NoTree

\* As Spec, for every sampling rate and adapter capability.
SpecVerify == InitVerify /\ [][Next]_vars

(***************************************************************************)
(* Two primitives instances created on the same adapter, each with its own *)
(* prefix (createPrimitives({adapter, prefix})) and otherwise the options  *)
(* of config.                                                              *)
(***************************************************************************)
Instances == {1, 2}

\* The prefixes "a" and "a:b".
InstancePrefix(i) == IF i = 1 THEN <<"a">> ELSE <<"a", ":", "b">>

\* The user keys "c" and "b:c".
InstanceKeys == { <<"c">>, <<"b", ":", "c">> }

InstanceSetOptionSet ==
  [ key : InstanceKeys,
    tags : QueryTagLists,
    ttl : {Num(1)},
    grace : {Undefined, Num(1)} ]

\* set(key, value, setOptions) on instance i up to its await; the value
\* written is the number of the instance.
InstanceSetStart(c, i, sopts) ==
  /\ call[c].pc = "idle"
  /\ \A d \in Calls : d < c => call[d].pc # "idle"
  /\ call' = [call EXCEPT ![c] =
       [@ EXCEPT !.pc = "pset", !.path = "set", !.opts = sopts,
                 !.cacheKey = CacheKey(InstancePrefix(i), sopts.key),
                 !.fnow = clock, !.value = i, !.seenInv = InvDone,
                 !.instance = i]]
  /\ UNCHANGED <<codec, tagTree, clock, config, cache, tagInvalidations, inFlight, bg, inval,
                 loadEpoch, invCount>>

\* get(key) on instance i up to its await: calls adapter.get.
InstanceGetStart(c, i, key) ==
  /\ call[c].pc = "idle"
  /\ \A d \in Calls : d < c => call[d].pc # "idle"
  /\ call' = [call EXCEPT ![c] =
       [@ EXCEPT !.pc = "pget", !.path = "get",
                 !.cacheKey = CacheKey(InstancePrefix(i), key),
                 !.during = PendingSet(CacheKey(InstancePrefix(i), key)),
                 !.seenInv = InvDone, !.snap = tagInvalidations,
                 !.instance = i]]
  /\ UNCHANGED <<codec, tagTree, clock, config, cache, tagInvalidations, inFlight, bg, inval,
                 loadEpoch, invCount>>

NextPrefix ==
  \/ \E c \in Calls, i \in Instances, sopts \in InstanceSetOptionSet :
       InstanceSetStart(c, i, sopts)
  \/ \E c \in Calls : PrimSetDone(c)
  \/ \E c \in Calls, i \in Instances, key \in InstanceKeys :
       InstanceGetStart(c, i, key)
  \/ \E c \in Calls : PrimGetEntry(c)
  \/ \E c \in Calls : PrimGetStale(c)
  \/ Tick

SpecPrefix == Init /\ [][NextPrefix]_vars

(***************************************************************************)
(* The tag schema (at, wild and their .at method) and createTagBuilder.    *)
(* A schema node is a record; a runtime object is its property map, with   *)
(* "__path" one of the properties, and for a callable the schema and path  *)
(* its wildFn closes over.  tagTree holds a schema, the tree made of it,   *)
(* the node a navigation has reached and the navigation.                   *)
(***************************************************************************)
MaxDepth == 1
TreeNames == {"a", "__path"}
TreeIds == {"1"}

\* { _tag: 'at', _name, _children, _siblings, at }
createAtBuilder(name, children, siblings) ==
  [tag |-> "at", name |-> name, children |-> children, siblings |-> siblings]

\* { _tag: 'wild', _children, _siblings, at }
createWildBuilder(children, siblings) ==
  [tag |-> "wild", children |-> children, siblings |-> siblings]

\* at(name, child?): child is Undefined when absent.
at(name, child) == createAtBuilder(name, child, Undefined)

\* wild(child)
wildImpl(child) == createWildBuilder(child, Undefined)

\* wild taken as a value
wild == createWildBuilder(Undefined, Undefined)

\* builder.at(n, child?): the same builder with one more sibling.
BuilderAt(builder, n, child) ==
  LET newSibling == [tag |-> "at", name |-> n, children |-> child,
                     siblings |-> Undefined]
      siblings == IF builder.siblings = Undefined THEN EmptyMap
                  ELSE builder.siblings
  IN [builder EXCEPT !.siblings = MapSet(siblings, n, newSibling)]

\* The schemas with at most d levels of children and at most one sibling
\* per node, written with at, wild and .at.
RECURSIVE SchemasOfDepth(_)
SchemasOfDepth(d) ==
  LET children == IF d = 0 THEN {Undefined}
                  ELSE {Undefined} \cup SchemasOfDepth(d - 1)
      bare == { at(n, c) : n \in TreeNames, c \in children }
                \cup { IF c = Undefined THEN wild ELSE wildImpl(c) : c \in children }
  IN bare \cup { BuilderAt(b, n, c) :
                   b \in bare, n \in TreeNames, c \in {Undefined, wild} }

TreeSchemas == SchemasOfDepth(MaxDepth)

\* The value of a __path property.
PathVal(path) == [kind |-> "path", segs |-> path]

\* createTag(path): { [TAG_BRAND]: true, __path: path }
createTag(path) ==
  [kind |-> "node", props |-> MapSet(EmptyMap, "__path", PathVal(path)),
   fn |-> Null]

\* { ...a, ...b }
MapMerge(a, b) ==
  [k \in DOMAIN a \cup DOMAIN b |-> IF k \in DOMAIN b THEN b[k] ELSE a[k]]

\* Object.assign(target, source)
ObjectAssign(target, source) ==
  [target EXCEPT !.props = MapMerge(target.props, source)]

\* buildTagsFromWild: wildFn, with the properties of createTag(currentPath).
buildTagsFromWild(schema, currentPath) ==
  [kind |-> "node", props |-> createTag(currentPath).props,
   fn |-> [schema |-> schema, currentPath |-> currentPath]]

RECURSIVE buildTagsFromAt(_, _)
RECURSIVE buildSiblings(_, _)

\* buildTagsFromAt(schema, currentPath): a record of the node and its siblings.
buildTagsFromAt(schema, currentPath) ==
  LET path == Append(currentPath, schema.name)
      tag == createTag(path)
      child == schema.children
      siblingTags == IF schema.siblings # Undefined
                     THEN buildSiblings(schema.siblings, currentPath)
                     ELSE EmptyMap
  IN IF child # Undefined /\ child.tag = "wild"
     THEN LET wildResult ==
                ObjectAssign(buildTagsFromWild(child, path),
                             MapSet(EmptyMap, "__path", PathVal(path)))
              wildSiblingTags == IF child.siblings # Undefined
                                 THEN buildSiblings(child.siblings, path)
                                 ELSE EmptyMap
          IN MapMerge(MapSet(EmptyMap, schema.name,
                             ObjectAssign(wildResult, wildSiblingTags)),
                      siblingTags)
     ELSE LET withChild ==
                IF child # Undefined /\ child.tag = "at"
                THEN ObjectAssign(tag, buildTagsFromAt(child, path))
                ELSE tag
          IN MapMerge(MapSet(EmptyMap, schema.name, withChild), siblingTags)

\* buildSiblings(siblings, currentPath): the records of the siblings, merged
\* (the siblings have distinct names, so the order does not matter).
buildSiblings(siblings, currentPath) ==
  IF DOMAIN siblings = {} THEN EmptyMap
  ELSE LET k == CHOOSE x \in DOMAIN siblings : TRUE
           node == siblings[k]
           rest == [x \in DOMAIN siblings \ {k} |-> siblings[x]]
       IN MapMerge(IF node.tag = "at"
                   THEN buildTagsFromAt(node, currentPath)
                   ELSE buildTagsFromWild(node, currentPath).props,
                   buildSiblings(rest, currentPath))

\* wildFn(id), for the schema and currentPath of its closure.
wildFn(closure, id) ==
  LET path == Append(closure.currentPath, id)
      tag == createTag(path)
      child == closure.schema.children
  IN IF child # Undefined /\ child.tag = "at"
     THEN ObjectAssign(tag, buildTagsFromAt(child, path))
     ELSE IF child # Undefined /\ child.tag = "wild"
     THEN ObjectAssign(buildTagsFromWild(child, path),
                       MapSet(EmptyMap, "__path", PathVal(path)))
     ELSE tag

\* createTagBuilder(schema)
createTagBuilder(schema) ==
  IF schema.tag = "at"
  THEN [kind |-> "node", props |-> buildTagsFromAt(schema, <<>>), fn |-> Null]
  ELSE buildTagsFromWild(schema, <<>>)

\* One step of a navigation: tags.name, or tags(id).
GetStep(name) == [op |-> "get", seg |-> name]
CallStep(id) == [op |-> "call", seg |-> id]

InitTree ==
  /\ clock = 0
  /\ config \in Configs
  /\ cache = EmptyMap
  /\ tagInvalidations = EmptyMap
  /\ inFlight = EmptyMap
  /\ call = [c \in Calls |-> IdleCall]
  /\ bg = [c \in Calls |-> NoTask]
  /\ inval = IdleInval
  /\ loadEpoch = <<>>
  /\ invCount = 0
  /\ codec = NoCodec
  /\ tagTree \in [pc : {"schema"}, schema : TreeSchemas, root : {Null},
                  node : {Null}, nav : {<<>>}]

\* tags = createTagBuilder(schema)
CreateTagBuilder ==
  /\ tagTree.pc = "schema"
  /\ tagTree' = [tagTree EXCEPT !.pc = "tree",
                                !.root = createTagBuilder(tagTree.schema),
                                !.node = createTagBuilder(tagTree.schema)]
  /\ UNCHANGED <<codec, clock, config, cache, tagInvalidations, inFlight, call,
                 bg, inval, loadEpoch, invCount>>

\* node.name, for a property the node has other than __path.
GetProperty(name) ==
  /\ tagTree.pc = "tree"
  /\ name \in DOMAIN tagTree.node.props
  /\ name # "__path"
  /\ tagTree' = [tagTree EXCEPT !.node = tagTree.node.props[name],
                                !.nav = Append(tagTree.nav, GetStep(name))]
  /\ UNCHANGED <<codec, clock, config, cache, tagInvalidations, inFlight, call,
                 bg, inval, loadEpoch, invCount>>

\* node(id), for a callable node.
CallWild(id) ==
  /\ tagTree.pc = "tree"
  /\ tagTree.node.fn # Null
  /\ tagTree' = [tagTree EXCEPT !.node = wildFn(tagTree.node.fn, id),
                                !.nav = Append(tagTree.nav, CallStep(id))]
  /\ UNCHANGED <<codec, clock, config, cache, tagInvalidations, inFlight, call,
                 bg, inval, loadEpoch, invCount>>

NextTree ==
  \/ CreateTagBuilder
  \/ \E name \in TreeNames : GetProperty(name)
  \/ \E id \in TreeIds : CallWild(id)

SpecTree == InitTree /\ [][NextTree]_vars

(***************************************************************************)
(* The deprecated T87s client: query, fetchAndCache, refreshInBackground.  *)
(***************************************************************************)
\* generateCacheKey(prefix, fnName, args): `${prefix}:${fnName}:${argsHash}`,
\* fnName and the hash of the arguments being the key of the model's options.
generateCacheKey(prefix, opts) == prefix \o <<":">> \o opts.key

\* The client's grace: config.grace === false ? false
\*   : config.grace ? parseDuration(config.grace) : this.defaultGrace
ClientGraceOf(opts) ==
  IF opts.grace = False THEN False
  ELSE IF IsNum(opts.grace) /\ opts.grace.n # 0 THEN Num(parseDuration(opts.grace))
  ELSE config.defaultGrace

\* The entry the client's fetchAndCache builds after its loader returned.
ClientNewEntry(value, opts, now) ==
  [ value |-> value,
    tags |-> opts.tags,
    createdAt |-> now,
    expiresAt |-> now + TtlOf(opts),
    graceUntil |-> IF ClientGraceOf(opts) = False THEN Null
                   ELSE Num(now + TtlOf(opts) + ClientGraceOf(opts).n) ]

\* The client's isEntryStale test on one read: strictly after createdAt.
ClientInvalidates(invalidation, entry) ==
  invalidation # Null /\ invalidation.n > entry.createdAt

\* The calls of the client that have not returned yet for cacheKey.
ClientRunning(cacheKey) ==
  { d \in Calls : call[d].cacheKey = cacheKey /\ call[d].pc \notin {"idle", "done"} }

\* The cached query up to its first await: return the in-flight promise, or
\* call adapter.get; nothing is registered yet.
ClientQueryStart(c, opts) ==
  /\ call[c].pc = "idle"
  /\ \A d \in Calls : d < c => call[d].pc # "idle"
  /\ LET cacheKey == generateCacheKey(config.prefix, opts)
         during == IF ClientRunning(cacheKey) = {} THEN 0
                   ELSE CHOOSE d \in ClientRunning(cacheKey) : TRUE
     IN call' = [call EXCEPT ![c] =
          IF InFlightGet(cacheKey) # 0
          THEN [@ EXCEPT !.pc = "joined", !.cacheKey = cacheKey,
                         !.prom = InFlightGet(cacheKey), !.during = during]
          ELSE [@ EXCEPT !.pc = "cget", !.opts = opts, !.cacheKey = cacheKey,
                         !.prom = c, !.during = during]]
  /\ UNCHANGED <<codec, tagTree, clock, config, cache, tagInvalidations, inFlight, bg, inval,
                 loadEpoch, invCount>>

\* The client calls fetchAndCache(cacheKey, config), which calls config.fn(),
\* and registers the promise: this.inFlight.set(cacheKey, promise).
ClientFetch(c, cl) ==
  /\ call' = [call EXCEPT ![c] =
       [cl EXCEPT !.pc = "cload", !.path = "fetch", !.value = loads + 1,
                  !.invoked = cl.invoked + 1]]
  /\ inFlight' = MapSet(inFlight, cl.cacheKey, c)
  /\ loadEpoch' = Append(loadEpoch, LoadStamp)
  /\ UNCHANGED bg

\* The record of a client call that returned cached.value itself.
ClientReturned(cl, path) ==
  [ Settled(cl, path, Fulfilled(cl.cached.value)) EXCEPT
      !.pc = "done", !.result = Fulfilled(cl.cached.value) ]

\* The cached query after isEntryStale returned isStale.
ClientDecide(c, cl, isStale) ==
  IF ~isStale /\ cl.cached.expiresAt > cl.now
  THEN /\ call' = [call EXCEPT ![c] = ClientReturned(cl, "fresh")]
       /\ UNCHANGED <<inFlight, bg, loadEpoch>>
  ELSE IF cl.cached.graceUntil # Null /\ cl.cached.graceUntil.n > cl.now
  THEN /\ call' = [call EXCEPT ![c] =
            ClientReturned([cl EXCEPT !.invoked = cl.invoked + 1], "grace")]
       /\ bg' = [bg EXCEPT ![c] = Spawn("refresh", cl)]
       /\ loadEpoch' = Append(loadEpoch, LoadStamp)
       /\ UNCHANGED inFlight
  ELSE ClientFetch(c, cl)

\* The client's adapter.get returns; the clock is read.
ClientGetDone(c) ==
  /\ call[c].pc = "cget"
  /\ LET cached == AdapterGet(call[c].cacheKey)
         cl == [call[c] EXCEPT !.cached = cached, !.now = clock]
     IN IF cached = Null
        THEN ClientFetch(c, cl)
        ELSE /\ call' = [call EXCEPT ![c] = [cl EXCEPT !.pc = "cstale", !.idx = 1]]
             /\ UNCHANGED <<inFlight, bg, loadEpoch>>
  /\ UNCHANGED <<codec, tagTree, clock, config, cache, tagInvalidations, inval, invCount>>

\* The client's isEntryStale: one adapter.getTagInvalidationTime(entryTag)
\* returns, or the loop over the entry's tags is over.
ClientStaleRead(c) ==
  /\ call[c].pc = "cstale"
  /\ LET cl == call[c]
         tags == cl.cached.tags
     IN IF cl.idx > Len(tags)
        THEN ClientDecide(c, cl, FALSE)
        ELSE IF ClientInvalidates(GetTagInvalidationTime(tags[cl.idx]), cl.cached)
        THEN ClientDecide(c, cl, TRUE)
        ELSE /\ call' = [call EXCEPT ![c] = [cl EXCEPT !.idx = cl.idx + 1]]
             /\ UNCHANGED <<inFlight, bg, loadEpoch>>
  /\ UNCHANGED <<codec, tagTree, clock, config, cache, tagInvalidations, inval, invCount>>

\* config.fn() of the client's fetchAndCache returns (the clock is read and
\* adapter.set called) or raises (the catch calls adapter.get).
ClientLoaderDone(c, ok) ==
  /\ call[c].pc = "cload"
  /\ call' = [call EXCEPT ![c] =
       IF ok THEN [@ EXCEPT !.pc = "cset", !.fnow = clock]
       ELSE [@ EXCEPT !.pc = "ccatch"]]
  /\ UNCHANGED <<codec, tagTree, clock, config, cache, tagInvalidations, inFlight, bg, inval,
                 loadEpoch, invCount>>

\* adapter.set of the client's fetchAndCache returns.
ClientSetDone(c) ==
  /\ call[c].pc = "cset"
  /\ cache' = MapSet(cache, call[c].cacheKey,
                     ClientNewEntry(call[c].value, call[c].opts, call[c].fnow))
  /\ call' = [call EXCEPT ![c] =
       Settled(call[c], "fetch", Fulfilled(call[c].value))]
  /\ UNCHANGED <<codec, tagTree, clock, config, tagInvalidations, inFlight, bg, inval, loadEpoch,
                 invCount>>

\* adapter.get of the catch returns: the graced entry's value, or the error.
ClientCatchDone(c) ==
  /\ call[c].pc = "ccatch"
  /\ LET cached == AdapterGet(call[c].cacheKey)
     IN call' = [call EXCEPT ![c] =
          IF cached # Null /\ cached.graceUntil # Null /\ cached.graceUntil.n > clock
          THEN Settled(call[c], "suppressed", Fulfilled(cached.value))
          ELSE Settled(call[c], "fetch", Rejected(call[c].value))]
  /\ UNCHANGED <<codec, tagTree, clock, config, cache, tagInvalidations, inFlight, bg, inval,
                 loadEpoch, invCount>>

\* config.fn() of the client's refreshInBackground returns or raises.
ClientBgLoaderDone(c, ok) ==
  /\ bg[c].pc = "load"
  /\ bg' = [bg EXCEPT ![c] =
       IF ok THEN [@ EXCEPT !.pc = "set", !.fnow = clock]
       ELSE [@ EXCEPT !.pc = "catch"]]
  /\ UNCHANGED <<codec, tagTree, clock, config, cache, tagInvalidations, inFlight, call, inval,
                 loadEpoch, invCount>>

\* adapter.set of the client's refreshInBackground returns.
ClientBgSetDone(c) ==
  /\ bg[c].pc = "set"
  /\ cache' = MapSet(cache, bg[c].cacheKey,
                     ClientNewEntry(bg[c].value, bg[c].opts, bg[c].fnow))
  /\ bg' = [bg EXCEPT ![c] = Ended(bg[c], "done")]
  /\ UNCHANGED <<codec, tagTree, clock, config, tagInvalidations, inFlight, call, inval, loadEpoch,
                 invCount>>

\* adapter.get of the background catch returns; the outcome is ignored.
ClientBgCatchDone(c) ==
  /\ bg[c].pc = "catch"
  /\ bg' = [bg EXCEPT ![c] = Ended(bg[c], "failed")]
  /\ UNCHANGED <<codec, tagTree, clock, config, cache, tagInvalidations, inFlight, call, inval,
                 loadEpoch, invCount>>

NextClient ==
  \/ \E c \in Calls, opts \in QueryOptionSet : ClientQueryStart(c, opts)
  \/ \E c \in Calls : ClientGetDone(c)
  \/ \E c \in Calls : ClientStaleRead(c)
  \/ \E c \in Calls, ok \in BOOLEAN : ClientLoaderDone(c, ok)
  \/ \E c \in Calls : ClientSetDone(c)
  \/ \E c \in Calls : ClientCatchDone(c)
  \/ \E c \in Calls : Release(c)
  \/ \E c \in Calls : JoinerDone(c)
  \/ \E c \in Calls, ok \in BOOLEAN : ClientBgLoaderDone(c, ok)
  \/ \E c \in Calls : ClientBgSetDone(c)
  \/ \E c \in Calls : ClientBgCatchDone(c)
  \/ Tick

\* One deprecated T87s client on a memory adapter.
SpecClient == Init /\ [][NextClient]_vars

\* The steps of Spec without clear().
NextOverlap ==
  \/ \E c \in Calls, opts \in QueryOptionSet : QueryStart(c, opts)
  \/ QuerySteps
  \/ BgSteps
  \/ \E tag \in InvalidateTags : InvalidateStart(tag, FALSE)
  \/ InvalidateWrite
  \/ Tick

\* Queries, background tasks and invalidations from a stored entry; the store
\* is never cleared.
SpecOverlap == InitStored /\ [][NextOverlap]_vars

\* The steps of Spec, and storage writes that fail.
NextWriteFail ==
  \/ Next
  \/ \E c \in Calls : AdapterSetFail(c)
  \/ \E c \in Calls : BgSetFail(c)

\* As SpecIO under a non-decreasing clock, from a stored entry.
SpecWriteFail == InitStored /\ [][NextWriteFail]_vars

\* Every storage call and every loader invocation a query call awaits
\* completes, with a value or an error, and every continuation then runs.
QueryFairness ==
  \A c \in Calls :
    /\ WF_vars(AdapterGetDone(c))
    /\ WF_vars(StaleRead(c))
    /\ WF_vars(\E ok \in BOOLEAN : LoaderDone(c, ok))
    /\ WF_vars(AdapterSetDone(c) \/ AdapterSetFail(c))
    /\ WF_vars(Release(c))
    /\ WF_vars(JoinerDone(c))

\* The steps of the query calls and their background tasks, with writes that
\* fail, as time passes.
NextLive ==
  \/ \E c \in Calls, opts \in QueryOptionSet : QueryStart(c, opts)
  \/ QuerySteps
  \/ \E c \in Calls : AdapterSetFail(c)
  \/ BgSteps
  \/ Tick

\* One engine on an adapter whose set may reject, all of whose calls complete.
SpecLive == Init /\ [][NextLive]_vars /\ QueryFairness

(***************************************************************************)
(* The invalidation checks on their own: one entry and a fixed table of    *)
(* tag-invalidation timestamps, checked by the engine's isEntryStale, by   *)
(* the isEntryStale of the primitives and by the loop of the earlier get.  *)
(***************************************************************************)
\* entry.tags of the entries checked.
OrderTagLists ==
  TagQueryTagLists \cup { << <<SegA, SegB>>, <<SegB>> >> }

\* The tags whose timestamp a table may hold.
OrderKeys ==
  { <<SegA>>, <<SegB>>, <<SegA, SegB>>, ExactTag(<<SegA>>), ExactTag(<<SegB>>),
    ExactTag(<<SegA, SegB>>), ExactTag(ExactTag(<<SegA>>)) }

\* The timestamp tables: at most two tags written.
OrderTables ==
  {EmptyMap}
    \cup { MapSet(MapSet(EmptyMap, serializeTag(k1), t1), serializeTag(k2), t2) :
             k1 \in OrderKeys, k2 \in OrderKeys, t1 \in 0..MaxTime, t2 \in 0..MaxTime }

\* A loop over reads that returns true at the first adapter
\* getTagInvalidationTime whose timestamp is >= entry.createdAt.
RECURSIVE ScanReads(_, _, _)
ScanReads(table, entry, reads) ==
  IF reads = <<>> THEN FALSE
  ELSE IF Invalidates(TagTimeIn(table, Head(reads)), entry) THEN TRUE
  ELSE ScanReads(table, entry, Tail(reads))

\* isEntryStale of createPrimitives: per entry tag the exact marker, then the
\* prefixes.
primIsEntryStale(table, entry) == ScanReads(table, entry, StaleReads(entry.tags))

\* The reads of the earlier get for one entry tag: every prefix of length
\* 1 .. tag.length, then the exact marker.
GetTagReads(tag) ==
  [len \in 1..Len(tag) |-> Slice(tag, len)] \o <<ExactTag(tag)>>

\* The reads of the earlier get over entry.tags.
RECURSIVE GetReads(_)
GetReads(tags) ==
  IF tags = <<>> THEN <<>> ELSE GetTagReads(Head(tags)) \o GetReads(Tail(tags))

\* The tag-invalidation loop of the earlier get.
getInvalidated(table, entry) == ScanReads(table, entry, GetReads(entry.tags))

\* The boolean b as stored in a call's record.
Flag(b) == Fulfilled(IF b THEN 1 ELSE 0)

InitOrder ==
  /\ clock = 0
  /\ config \in Configs
  /\ \E tags \in OrderTagLists, created \in 0..MaxTime :
       cache = MapSet(EmptyMap, CacheKey(config.prefix, UserKey),
                      [ value |-> 1, tags |-> tags, createdAt |-> created,
                        expiresAt |-> MaxTime + 1, graceUntil |-> Null ])
  /\ tagInvalidations \in OrderTables
  /\ inFlight = EmptyMap
  /\ call = [c \in Calls |-> IdleCall]
  /\ bg = [c \in Calls |-> NoTask]
  /\ inval = IdleInval
  /\ loadEpoch = <<[done |-> 0, called |-> 0]>>
  /\ invCount = 0
  /\ codec = NoCodec
  /\ tagTree = NoTree

\* The engine reads the entry and runs isEntryStale on it.
EngineCheck(c) ==
  /\ call[c].pc = "idle"
  /\ \A d \in Calls : d < c => call[d].pc = "compared"
  /\ LET cacheKey == CacheKey(config.prefix, UserKey)
         cached == AdapterGet(cacheKey)
     IN call' = [call EXCEPT ![c] =
          [@ EXCEPT !.pc = "checked", !.cacheKey = cacheKey, !.cached = cached,
                    !.outcome = Flag(isEntryStale(tagInvalidations, cached))]]
  /\ UNCHANGED <<codec, tagTree, clock, config, cache, tagInvalidations, inFlight, bg, inval,
                 loadEpoch, invCount>>

\* get of the primitives checks the same entry: result is its isEntryStale,
\* idx the loop of the earlier get.
GetCheck(c) ==
  /\ call[c].pc = "checked"
  /\ call' = [call EXCEPT ![c] =
       [@ EXCEPT !.pc = "compared",
                 !.result = Flag(primIsEntryStale(tagInvalidations, call[c].cached)),
                 !.idx = IF getInvalidated(tagInvalidations, call[c].cached)
                         THEN 1 ELSE 0]]
  /\ UNCHANGED <<codec, tagTree, clock, config, cache, tagInvalidations, inFlight, bg, inval,
                 loadEpoch, invCount>>

NextOrder ==
  \/ \E c \in Calls : EngineCheck(c)
  \/ \E c \in Calls : GetCheck(c)

SpecOrder == InitOrder /\ [][NextOrder]_vars

(***************************************************************************)
(* Properties.                                                             *)
(***************************************************************************)
\* A call that is awaiting or has returned.
Returned(c) == call[c].pc = "done"

\* C1: a query issued for a cache key while another call's getOrFetch for
\* that key is still running joins that call: it invokes no loader and
\* resolves to what that call resolves to; and a call that took the load path
\* (entry absent or expired) invoked the loader exactly once.  So N calls
\* issued during one load share one loader invocation and one result.
C1_StampedeProtection ==
  \A c \in Calls :
    /\ call[c].during # 0 =>
         /\ call[c].pc \in {"joined", "done"}
         /\ call[c].prom = call[c].during
         /\ call[c].invoked = 0
         /\ Returned(c) =>
              /\ Returned(call[c].during)
              /\ call[c].result = call[call[c].during].result
    /\ (call[c].pc \in {"settled", "done"} /\ call[c].prom = c
        /\ call[c].path \in {"fetch", "suppressed"}) => call[c].invoked = 1

\* C1 witness: a call issued during another call's load has returned the
\* value of that load.
C1_Witness ==
  \E c, d \in Calls :
    /\ c # d /\ call[d].during = c /\ Returned(d)
    /\ call[c].path = "fetch" /\ call[d].result.st = "ok"
    /\ call[c].result = call[d].result /\ loads = 1

\* The non-empty prefixes of a tag, the tag itself included.
Prefixes(tag) == { SubSeq(tag, 1, len) : len \in 1..Len(tag) }

\* Some non-empty prefix of one of the entry's tags has, in `table`, a
\* timestamp >= entry.createdAt.
PrefixInvalidated(table, entry) ==
  \E i \in 1..Len(entry.tags) : \E P \in Prefixes(entry.tags[i]) :
    /\ serializeTag(P) \in DOMAIN table
    /\ table[serializeTag(P)] >= entry.createdAt

\* The entry getOrFetch of call c works on in the step that ends its checks.
EntryRead(c) ==
  IF call[c].pc = "get" THEN AdapterGet(call[c].cacheKey) ELSE call[c].cached

\* Call c's getOrFetch ends its reads of the storage in this step.
Decides(c) ==
  call[c].pc \in {"get", "stale"} /\ call'[c].pc \notin {"get", "stale"}

\* C2: if, when a query was issued, the timestamp stored for a non-empty
\* prefix of one of the tags of the entry it reads was >= the entry's
\* createdAt (equality included), the query does not return the entry as a
\* fresh hit: its freshness check reports it stale and it loads anew.
C2_PrefixInvalidation ==
  [][\A c \in Calls :
       (Decides(c) /\ EntryRead(c) # Null
        /\ PrefixInvalidated(call[c].snap, EntryRead(c)))
       => (call'[c].pc = "load" /\ call'[c].path = "fetch")]_vars

\* C2 witness: a query reloads an entry because a proper prefix of its tag
\* was invalidated in the very millisecond the entry was created.
C2_Witness ==
  \E c \in Calls :
    /\ call[c].pc = "load" /\ call[c].cached # Null
    /\ call[c].cached.tags = << <<SegA, SegB>> >>
    /\ DOMAIN tagInvalidations = {serializeTag(<<SegA>>)}
    /\ tagInvalidations[serializeTag(<<SegA>>)] = call[c].cached.createdAt

\* The getOrFetch promise call c returned was settled with a fresh result: a
\* fresh hit or a synchronous load (not a stale value served within grace).
FreshResult(c) ==
  /\ Returned(c) /\ call[c].result.st = "ok"
  /\ call[call[c].prom].path \in {"fresh", "fetch"}

\* C3: a query issued after an invalidate call returned never resolves, as
\* a fresh result, to a value whose loader was invoked before that
\* invalidate call returned -- whether the query runs getOrFetch itself or
\* joins a load in flight.  (Every invalidation here covers the query's tag.)
C3_ObservesInvalidation ==
  \A c \in Calls :
    FreshResult(c) => loadEpoch[call[c].result.v].done >= call[c].seenInv

\* The step in which an exact / a non-exact invalidate call's write lands.
ExactWrite == inval.pc = "write" /\ inval.exact /\ inval'.pc = "idle"
PrefixWrite == inval.pc = "write" /\ ~inval.exact /\ inval'.pc = "idle"

\* C4: when the write of invalidate([T], exact = true) lands, a stored entry
\* one of whose tags is exactly T (and that was not created after the call
\* read the clock) is tag-invalidated, and every other stored entry -- one
\* tagged T ++ [x] in particular -- is classified as before.
C4_ExactInvalidation ==
  [][ExactWrite =>
       \A k \in DOMAIN cache :
         IF \E i \in 1..Len(cache[k].tags) : cache[k].tags[i] = inval.tag
         THEN inval.now >= cache[k].createdAt
              => isEntryStale(tagInvalidations', cache[k])
         ELSE isEntryStale(tagInvalidations', cache[k])
              = isEntryStale(tagInvalidations, cache[k])]_vars

\* C5: when the write of a non-exact invalidate([P]) lands, a stored entry
\* one of whose tags has P as a prefix (and that was not created after the
\* call read the clock) is tag-invalidated, and every other stored entry is
\* classified as before.
C5_PrefixOnly ==
  [][PrefixWrite =>
       \A k \in DOMAIN cache :
         IF \E i \in 1..Len(cache[k].tags) : isTagPrefix(inval.tag, cache[k].tags[i])
         THEN inval.now >= cache[k].createdAt
              => isEntryStale(tagInvalidations', cache[k])
         ELSE isEntryStale(tagInvalidations', cache[k])
              = isEntryStale(tagInvalidations, cache[k])]_vars

\* C6: when getOrFetch ends its checks on an entry that is within its TTL
\* (expiresAt > the call's now) and not tag-invalidated, it returns the stored
\* value as a fresh hit, writes nothing to storage, and invokes the loader
\* either not at all or once for a background verification; query then
\* returns what getOrFetch returned.
C6_FreshHit ==
  [][\A c \in Calls :
       /\ (Decides(c) /\ EntryRead(c) # Null
           /\ ~isEntryStale(tagInvalidations, EntryRead(c))
           /\ EntryRead(c).expiresAt > call[c].now)
          => /\ call'[c].pc = "settled" /\ call'[c].path = "fresh"
             /\ call'[c].outcome = [st |-> "ok", v |-> EntryRead(c).value]
             /\ cache' = cache /\ tagInvalidations' = tagInvalidations
             /\ \/ loadEpoch' = loadEpoch /\ bg' = bg
                \/ /\ loads' = loads + 1
                   /\ bg'[c].kind = "verify" /\ bg'[c].pc = "load"
                   /\ bg'[c].value = loads'
       /\ (call[c].pc = "settled" /\ call[c].path = "fresh" /\ call'[c].pc = "done")
          => call'[c].result = call[c].outcome /\ loadEpoch' = loadEpoch
             /\ cache' = cache]_vars

\* C6 witness: a query returned the stored value as a fresh hit; the loader
\* ran once in all (for the first query) and no verification was started.
C6_Witness ==
  \E c \in Calls :
    /\ Returned(c) /\ call[c].prom = c /\ call[c].path = "fresh"
    /\ call[c].result = [st |-> "ok", v |-> 1]
    /\ bg[c].kind = "none" /\ loads = 1
    /\ \E k \in DOMAIN cache : cache[k].value = 1

\* C7: when getOrFetch ends its checks on an entry past its TTL
\* (expiresAt <= now) but inside its grace window (graceUntil > now), it
\* returns the stored value in that same step, without awaiting the loader,
\* and starts exactly one background refresh: one loader invocation, for a
\* task with the call's cache key and options (tags, loader, ttl, grace).
C7_StaleWhileRevalidate ==
  [][\A c \in Calls :
       (Decides(c) /\ EntryRead(c) # Null
        /\ EntryRead(c).expiresAt <= call[c].now
        /\ EntryRead(c).graceUntil # Null
        /\ EntryRead(c).graceUntil.n > call[c].now)
       => /\ call'[c].pc = "settled" /\ call'[c].path = "grace"
          /\ call'[c].outcome = [st |-> "ok", v |-> EntryRead(c).value]
          /\ loads' = loads + 1
          /\ bg[c].pc = "none"
          /\ bg'[c].pc = "load" /\ bg'[c].kind = "refresh"
          /\ bg'[c].value = loads'
          /\ bg'[c].cacheKey = call[c].cacheKey
          /\ bg'[c].opts = call[c].opts
          /\ \A d \in Calls \ {c} : bg'[d] = bg[d]
          /\ cache' = cache]_vars

\* C7 witness: a query has returned the stale value 1 while the refresh it
\* started is still waiting for its loader.
C7_Witness ==
  \E c \in Calls :
    /\ Returned(c) /\ call[c].path = "grace"
    /\ call[c].result = [st |-> "ok", v |-> 1]
    /\ bg[c].kind = "refresh" /\ bg[c].pc = "load" /\ bg[c].value = 2
    /\ bg[c].opts.grace = Num(1)

\* C8: the storage write of a background refresh whose loader succeeded
\* stores an entry holding the loaded value under the task's cache key, and
\* once the loader has succeeded that write eventually happens.
C8_RefreshReplaces ==
  /\ [][\A c \in Calls :
          (bg[c].pc = "set" /\ bg'[c].pc = "done")
          => /\ bg[c].cacheKey \in DOMAIN cache'
             /\ cache'[bg[c].cacheKey].value = bg[c].value
             /\ cache'[bg[c].cacheKey].tags = bg[c].opts.tags
             /\ cache'[bg[c].cacheKey].createdAt = bg[c].fnow]_vars
  /\ \A c \in Calls : (bg[c].pc = "set") ~> (bg[c].pc = "done")

\* C8 witness: one query was served the stale value 1 and started the
\* refresh, which stored value 2; a later query returned 2 as a fresh hit.
C8_Witness ==
  \E c, d \in Calls :
    /\ c # d
    /\ Returned(c) /\ call[c].path = "grace"
    /\ call[c].result = [st |-> "ok", v |-> 1]
    /\ bg[c].kind = "refresh" /\ bg[c].pc = "done" /\ loads = 2
    /\ Returned(d) /\ call[d].prom = d /\ call[d].path = "fresh"
    /\ call[d].result = [st |-> "ok", v |-> 2]

\* C9: when the loader of the synchronous fetchAndCache raises, the call's
\* promise is fulfilled with the previously read entry's value if that entry
\* exists and its graceUntil is set and > fetchAndCache's now; in every
\* other case it is rejected with the loader's error.
C9_ErrorWithGrace ==
  [][\A c \in Calls :
       (call[c].pc = "load" /\ call'[c].pc = "settled")
       => IF /\ call[c].cached # Null
             /\ call[c].cached.graceUntil # Null
             /\ call[c].cached.graceUntil.n > call[c].fnow
          THEN call'[c].outcome = [st |-> "ok", v |-> call[c].cached.value]
          ELSE call'[c].outcome = [st |-> "err", v |-> call[c].value]]_vars

\* C9 witness: a query whose loader raised has returned the value of the
\* entry it had read, which was still within grace.
C9_Witness ==
  \E c \in Calls :
    /\ Returned(c) /\ call[c].path = "suppressed" /\ call[c].invoked = 1
    /\ call[c].result = [st |-> "ok", v |-> 1] /\ loads = 2

\* C10: when the loader of the synchronous fetchAndCache raises and the
\* previously read entry is absent, has no grace, or its grace has elapsed,
\* the call's promise is rejected with that error; and every call that
\* returns on a rejected promise -- the caller and each joiner -- returns
\* that promise's error.
C10_ErrorPropagation ==
  [][\A c \in Calls :
       /\ (call[c].pc = "load" /\ call'[c].pc = "settled"
           /\ (\/ call[c].cached = Null
               \/ call[c].cached.graceUntil = Null
               \/ call[c].cached.graceUntil.n <= call[c].fnow))
          => call'[c].outcome = [st |-> "err", v |-> call[c].value]
       /\ (call[c].pc # "done" /\ call'[c].pc = "done"
           /\ call[call[c].prom].outcome.st = "err")
          => call'[c].result = call[call[c].prom].outcome]_vars

\* C10 witness: a completer and a joiner of its load have both returned the
\* error of the one loader invocation.
C10_Witness ==
  \E c, d \in Calls :
    /\ c # d /\ call[c].prom = c /\ call[d].prom = c /\ call[d].during = c
    /\ Returned(c) /\ Returned(d) /\ loads = 1
    /\ call[c].result = [st |-> "err", v |-> 1]
    /\ call[d].result = [st |-> "err", v |-> 1]

\* C11: in the step in which a completer returns or raises, its cache key
\* leaves the coalescer, whether its promise was fulfilled or rejected; no
\* call that has returned is still registered; and a query issued when every
\* completer for its key has returned starts getOrFetch (it reads storage)
\* instead of joining.
C11_Release ==
  [][/\ \A c \in Calls :
          (call[c].prom = c /\ call[c].pc # "done" /\ call'[c].pc = "done")
          => call[c].cacheKey \notin DOMAIN inFlight'
     /\ \A k \in DOMAIN inFlight' : call'[inFlight'[k]].pc # "done"
     /\ \A c \in Calls :
          (call[c].pc = "idle" /\ call'[c].pc # "idle"
           /\ \A d \in Calls : call[d].prom = d => call[d].pc = "done")
          => call'[c].pc = "get" /\ call'[c].prom = c]_vars

\* C11 witness: a completer has raised, and a query issued after it for the
\* same key is reading storage itself.
C11_Witness ==
  \E c, d \in Calls :
    /\ c # d /\ Returned(c) /\ call[c].prom = c /\ call[c].result.st = "err"
    /\ call[d].pc = "get" /\ call[d].prom = d /\ call[d].cacheKey = call[c].cacheKey
    /\ inFlight[call[d].cacheKey] = d

\* isEntryStale of call c returns true in this step: the timestamp it reads
\* for one of the entry's tags is present and >= the entry's createdAt.
FindsInvalidation(c) ==
  /\ call[c].pc = "stale" /\ call'[c].pc # "stale"
  /\ LET key == serializeTag(StaleReads(call[c].cached.tags)[call[c].idx])
     IN key \in DOMAIN tagInvalidations
        /\ tagInvalidations[key] >= call[c].cached.createdAt

\* C12: a query whose check finds its entry tag-invalidated takes the
\* synchronous load path, with the grace window open or not: it invokes the
\* loader and awaits it, and starts no background task.
C12_InvalidatedLoadsSync ==
  [][\A c \in Calls :
       FindsInvalidation(c)
       => /\ call'[c].pc = "load" /\ call'[c].path = "fetch"
          /\ call'[c].invoked = call[c].invoked + 1
          /\ bg' = bg]_vars

\* C13: a query whose check finds its entry tag-invalidated while the
\* entry's grace window is open (graceUntil > now) returns the stored value
\* in that same step, without awaiting the loader, and starts one background
\* refresh for the same cache key and options.
C13_InvalidatedWithinGrace ==
  [][\A c \in Calls :
       (FindsInvalidation(c) /\ call[c].cached.graceUntil # Null
        /\ call[c].cached.graceUntil.n > call[c].now)
       => /\ call'[c].pc = "settled" /\ call'[c].path = "grace"
          /\ call'[c].outcome = [st |-> "ok", v |-> call[c].cached.value]
          /\ loads' = loads + 1
          /\ bg'[c].pc = "load" /\ bg'[c].kind = "refresh"
          /\ bg'[c].value = loads'
          /\ bg'[c].cacheKey = call[c].cacheKey /\ bg'[c].opts = call[c].opts
          /\ cache' = cache]_vars

\* C13 witness: the stored entry (value 1) was invalidated at time 0; a
\* query issued after that returned 1 and started the refresh, which
\* stored value 2; a later query returned 2 as a fresh hit.
C13_Witness ==
  \E c, d \in Calls :
    /\ c # d
    /\ serializeTag(<<SegA>>) \in DOMAIN tagInvalidations
    /\ tagInvalidations[serializeTag(<<SegA>>)] = 0
    /\ Returned(c) /\ call[c].path = "grace" /\ call[c].seenInv = 1
    /\ call[c].result = [st |-> "ok", v |-> 1]
    /\ bg[c].kind = "refresh" /\ bg[c].pc = "done" /\ loads = 2
    /\ loadEpoch[2].done = 1
    /\ Returned(d) /\ call[d].prom = d /\ call[d].path = "fresh"
    /\ call[d].result = [st |-> "ok", v |-> 2]

\* C14: the step in which adapter.set of a synchronous load returns either
\* stores the loaded value and fulfils the call's promise with it, or (the
\* write failed) stores nothing and rejects the promise with the write's
\* error; and a call's promise is fulfilled with a value it loaded only in
\* such a step, after the read, the loader call and the write.
C14_WriteFailureRaises ==
  [][\A c \in Calls :
       /\ (call[c].pc = "set" /\ call'[c].pc = "settled")
          => \/ /\ call[c].cacheKey \in DOMAIN cache'
                /\ cache'[call[c].cacheKey].value = call[c].value
                /\ call'[c].outcome = [st |-> "ok", v |-> call[c].value]
             \/ /\ cache' = cache
                /\ call'[c].outcome = [st |-> "err", v |-> WriteError(call[c].value)]
       /\ (call[c].pc # "settled" /\ call'[c].pc = "settled"
           /\ call'[c].path = "fetch" /\ call'[c].outcome.st = "ok")
          => call[c].pc = "set" /\ call[c].invoked = 1]_vars

\* C15: a step of a background refresh other than its successful write --
\* its loader returning or raising, its write failing -- changes neither the
\* storage nor any query call: a failed refresh leaves the stored entry as it
\* was and no caller's promise is settled by it.
C15_RefreshFailureSwallowed ==
  [][\A c \in Calls :
       (bg[c].kind = "refresh" /\ bg[c].pc \in {"load", "set"}
        /\ bg'[c] # bg[c] /\ bg'[c].pc # "done")
       => /\ cache' = cache /\ tagInvalidations' = tagInvalidations
          /\ call' = call /\ inFlight' = inFlight]_vars

\* C15 witness: the refresh started by a query that was served the stale
\* value 1 has failed; the stored entry still holds 1 and no call has raised.
C15_Witness ==
  \E c \in Calls :
    /\ bg[c].kind = "refresh" /\ bg[c].pc = "failed" /\ loads = 2
    /\ Returned(c) /\ call[c].path = "grace"
    /\ call[c].result = [st |-> "ok", v |-> 1]
    /\ call[c].cacheKey \in DOMAIN cache /\ cache[call[c].cacheKey].value = 1
    /\ \A d \in Calls : call[d].outcome.st # "err" /\ call[d].result.st # "err"

\* The entry and the clock reading a get call works on, and the step in which
\* it returns.
GetEntry(c) == IF call[c].pc = "pget" THEN AdapterGet(call[c].cacheKey) ELSE call[c].cached
GetNow(c) == IF call[c].pc = "pget" THEN clock ELSE call[c].now
GetReturns(c) == call[c].pc \in {"pget", "pstale"} /\ call'[c].pc = "pdone"

\* No tag timestamp was written or cleared while get call c ran.
Quiet(c) == call[c].seenInv = InvDone /\ call[c].snap = tagInvalidations

\* C16: a get during which the tag timestamps did not change returns the
\* stored value if the entry exists, is within its TTL or its grace window
\* at the time get reads the clock, and is not tag-invalidated; in every
\* other case it returns null.
C16_GetClassifies ==
  [][\A c \in Calls :
       (GetReturns(c) /\ Quiet(c))
       => call'[c].result =
            IF /\ GetEntry(c) # Null
               /\ \/ GetEntry(c).expiresAt > GetNow(c)
                  \/ /\ GetEntry(c).graceUntil # Null
                     /\ GetEntry(c).graceUntil.n > GetNow(c)
               /\ ~isEntryStale(tagInvalidations, GetEntry(c))
            THEN [st |-> "ok", v |-> GetEntry(c).value]
            ELSE [st |-> "ok", v |-> 0]]_vars

\* C16 witness: a get returned the value of an entry that was past its TTL
\* but within its grace window when get read the clock.
C16_Witness ==
  \E c \in Calls :
    /\ call[c].pc = "pdone" /\ call[c].path = "get"
    /\ call[c].cacheKey \in DOMAIN cache
    /\ call[c].result = [st |-> "ok", v |-> cache[call[c].cacheKey].value]
    /\ cache[call[c].cacheKey].createdAt = 0
    /\ cache[call[c].cacheKey].expiresAt = 1 /\ call[c].now = 1
    /\ cache[call[c].cacheKey].graceUntil = Num(2)
    /\ tagInvalidations = EmptyMap /\ invCount = 0

\* C17: no step of a get call changes the stored entries or the tag
\* invalidation timestamps.
C17_GetReadsOnly ==
  [][\A c \in Calls :
       (call[c].pc \in {"pget", "pstale"} /\ call'[c] # call[c])
       => cache' = cache /\ tagInvalidations' = tagInvalidations]_vars

\* C17 witness: a get returned null for an entry expired beyond its grace,
\* and the entry is still stored.
C17_Witness ==
  \E c \in Calls :
    /\ call[c].pc = "pdone" /\ call[c].path = "get" /\ call[c].result = Absent
    /\ call[c].cacheKey \in DOMAIN cache
    /\ cache[call[c].cacheKey].createdAt = 0
    /\ cache[call[c].cacheKey].expiresAt = 1
    /\ cache[call[c].cacheKey].graceUntil = Null
    /\ call[c].now = 1 /\ invCount = 0

\* C18: a get issued after set(key, v, options) completed, that reads the
\* entry that set stored (no del, clear or other set came between) before
\* its TTL elapsed, returns v, provided no invalidate call was issued since
\* set was called.
C18_ReadYourWrites ==
  [][\A c, d \in Calls :
       (/\ GetReturns(d) /\ c < d /\ call[d].during = 0
        /\ call[c].pc = "pdone" /\ call[c].path = "set"
        /\ call[c].cacheKey = call[d].cacheKey
        /\ GetEntry(d) = SetEntry(call[c].value, call[c].opts, call[c].fnow)
        /\ GetEntry(d).expiresAt > GetNow(d)
        /\ invCount = call[c].seenInv)
       => call'[d].result = [st |-> "ok", v |-> call[c].value]]_vars

\* The step in which the write of the second of two back-to-back invalidate
\* calls lands, and the key both calls write.
SecondWrite == inval.pc = "again" /\ inval'.pc = "idle"
PairKey ==
  serializeTag(IF inval.exact THEN Append(inval.tag, EXACT) ELSE inval.tag)

\* C19 as stated: the second of two back-to-back invalidate([T]) calls
\* changes the tag-invalidated status of no stored entry.
C19_SecondChangesNothing ==
  [][SecondWrite =>
       \A k \in DOMAIN cache :
         isEntryStale(tagInvalidations', cache[k])
         = isEntryStale(tagInvalidations, cache[k])]_vars

\* C19, amended: the second call only moves the timestamp of the key the
\* first call wrote forward, and changes the status of no stored entry except
\* those created after the first call read the clock and not after the
\* second did.
C19_Idempotent ==
  [][SecondWrite =>
       /\ PairKey \in DOMAIN tagInvalidations
       /\ tagInvalidations[PairKey] <= inval.now
       /\ tagInvalidations' =
            [x \in DOMAIN tagInvalidations |->
               IF x = PairKey THEN inval.now ELSE tagInvalidations[x]]
       /\ \A k \in DOMAIN cache :
            (\/ cache[k].createdAt <= tagInvalidations[PairKey]
             \/ cache[k].createdAt > inval.now)
            => isEntryStale(tagInvalidations', cache[k])
               = isEntryStale(tagInvalidations, cache[k])]_vars

\* C19 witness: two calls for the prefix [a], the second a millisecond after
\* the first, have both returned, and the stored entry tagged [a, b] that
\* existed before them is tag-invalidated.
C19_Witness ==
  /\ inval.pc = "idle" /\ invCount = 1
  /\ DOMAIN tagInvalidations = {serializeTag(<<SegA>>)}
  /\ tagInvalidations[serializeTag(<<SegA>>)] = 1
  /\ \E k \in DOMAIN cache :
       /\ cache[k].createdAt = 0 /\ cache[k].tags = << <<SegA, SegB>> >>
       /\ isEntryStale(tagInvalidations, cache[k])

\* C20: every stored entry has createdAt <= expiresAt and, when graceUntil is
\* present, expiresAt <= graceUntil.
C20_EntryInvariant ==
  \A k \in DOMAIN cache :
    /\ cache[k].createdAt <= cache[k].expiresAt
    /\ cache[k].graceUntil # Null => cache[k].expiresAt <= cache[k].graceUntil.n

\* C21: the entry stored by the synchronous load of a query called with
\* grace: false has no grace window (graceUntil is null).
C21_GraceFalse ==
  [][\A c \in Calls :
       (call[c].pc = "set" /\ call'[c].pc = "settled"
        /\ call[c].opts.grace = False
        /\ call[c].cacheKey \in DOMAIN cache'
        /\ cache'[call[c].cacheKey].value = call[c].value)
       => cache'[call[c].cacheKey].graceUntil = Null]_vars

\* C22: after clear() has returned the storage is empty, the next query
\* invokes its loader, and the entry it writes is not invalidated by an
\* invalidate issued before the clear (checked while no invalidate has been
\* issued since).
C22_ClearForgets ==
  [][\A c \in Calls :
       /\ (call[c].pc = "idle" /\ call'[c].clearedInv >= 0)
            => (cache' = EmptyMap /\ tagInvalidations' = EmptyMap)
       /\ (call[c].clearedInv >= 0
           /\ call[c].pc \in {"get", "stale", "load", "set", "joined"}
           /\ call'[c].pc \in {"settled", "done"})
            => call'[c].invoked >= 1
       /\ (call[c].clearedInv = invCount'
           /\ call[c].pc = "set" /\ call'[c].pc = "settled"
           /\ call[c].cacheKey \in DOMAIN cache')
            => ~isEntryStale(tagInvalidations', cache'[call[c].cacheKey])]_vars

\* C23: for every tag path p, deserializeTag(serializeTag(p)) equals p.
C23_RoundTrip ==
  codec.pc = "parts" => codec.parts = codec.tag

\* The order of the classifications: FRESH, IN_GRACE, EXPIRED.
Rank(path) == CASE path = "fresh" -> 0 [] path = "grace" -> 1 [] path = "fetch" -> 2

\* The condition under which getOrFetch takes each branch.
Applies(path, cl) ==
  LET isStale == isEntryStale(tagInvalidations, cl.cached)
  IN CASE path = "fresh" -> ~isStale /\ cl.cached.expiresAt > cl.now
       [] path = "grace" -> /\ ~(~isStale /\ cl.cached.expiresAt > cl.now)
                            /\ cl.cached.graceUntil # Null
                            /\ cl.cached.graceUntil.n > cl.now
       [] path = "fetch" -> /\ ~(~isStale /\ cl.cached.expiresAt > cl.now)
                            /\ ~(cl.cached.graceUntil # Null
                                 /\ cl.cached.graceUntil.n > cl.now)

\* C24: for a fixed entry and fixed timestamps, the classification at a later
\* time is never fresher than at an earlier time, and at each time exactly
\* one classification applies: the one the evaluation gives.
C24_Monotone ==
  /\ \A c, d \in Calls :
       (call[c].pc = "classified" /\ call[d].pc = "classified"
        /\ call[c].now <= call[d].now)
       => Rank(call[c].path) <= Rank(call[d].path)
  /\ \A c \in Calls :
       call[c].pc = "classified"
       => /\ { p \in {"fresh", "grace", "fetch"} : Applies(p, call[c]) }
               = {call[c].path}

\* C24 witness: an entry classified IN_GRACE at one time is EXPIRED at a
\* later one.
C24_Witness ==
  \E c, d \in Calls :
    /\ call[c].pc = "classified" /\ call[d].pc = "classified"
    /\ call[c].now < call[d].now
    /\ call[c].path = "grace" /\ call[d].path = "fetch"

C26_VerificationInert ==
  [][\A c \in Calls :
       /\ (bg'[c] # bg[c] /\ bg'[c].kind = "verify" /\ bg'[c].pc = "load")
          => /\ EntryRead(c) # Null
             /\ call'[c].outcome = Fulfilled(EntryRead(c).value)
             /\ cache' = cache
       /\ (bg[c].kind = "verify" /\ bg[c].pc \in {"load", "report"}
           /\ bg'[c] # bg[c])
          => /\ cache' = cache /\ tagInvalidations' = tagInvalidations
             /\ call' = call /\ inFlight' = inFlight
             /\ bg'[c].pc \in {"report", "done", "failed"}]_vars

\* C26 witness: the loader of a verification raised, and the query that
\* started it has returned the cached value, which is still stored.
C26_Witness ==
  \E c \in Calls :
    /\ bg[c].kind = "verify" /\ bg[c].pc = "failed"
    /\ call[c].pc = "done" /\ call[c].result.st = "ok"
    /\ call[c].cacheKey \in DOMAIN cache
    /\ cache[call[c].cacheKey].value = call[c].result.v

\* Call c starts a verification in this step.
StartsVerification(c) ==
  bg'[c] # bg[c] /\ bg'[c].kind = "verify" /\ bg'[c].pc = "load"

\* C27: a query starts a verification only when it takes the fresh-hit
\* branch on an unexpired entry whose check found no invalidation, the
\* adapter has reportVerification and verifyPercent is above 0; with
\* verifyPercent 1 and reportVerification every fresh hit starts one.
C27_VerifySampling ==
  [][\A c \in Calls :
       /\ StartsVerification(c)
          => /\ Decides(c) /\ ~FindsInvalidation(c)
             /\ call'[c].pc = "settled" /\ call'[c].path = "fresh"
             /\ EntryRead(c) # Null /\ EntryRead(c).expiresAt > call[c].now
             /\ config.report /\ config.verifyPercent > 0
       /\ (Decides(c) /\ call'[c].path = "fresh"
           /\ config.report /\ config.verifyPercent >= 100)
          => StartsVerification(c)]_vars

\* C27 witness: with verifyPercent 1 and reportVerification a fresh hit has
\* started a verification.
C27_Witness ==
  \E c \in Calls :
    /\ config.verifyPercent = 100 /\ config.report
    /\ bg[c].kind = "verify" /\ bg[c].pc = "load"
    /\ call[c].pc = "settled" /\ call[c].path = "fresh"

\* C28: a get on one instance never returns an entry written through the
\* instance with the other prefix (entries carry the number of the instance
\* that wrote them).
C28_PrefixIsolation ==
  [][\A c \in Calls :
       (call[c].pc \in {"pget", "pstale"} /\ call'[c].pc = "pdone"
        /\ call'[c].result # Absent)
       => call'[c].result.v = call[c].instance]_vars

\* The segments of a navigation.
Segments(nav) == [i \in 1..Len(nav) |-> nav[i].seg]

\* The node carries `path` as its __path.
CarriesPath(node, path) ==
  /\ "__path" \in DOMAIN node.props
  /\ node.props["__path"] = PathVal(path)

\* C29: every node a navigation of the tree reaches carries the segments of
\* the navigation as its __path; a wildcard taken as a value, at the root
\* too, carries the path of its parent.
C29_PathIsNavigation ==
  (tagTree.pc = "tree" /\ (tagTree.nav # <<>> \/ tagTree.node.fn # Null))
  => CarriesPath(tagTree.node, Segments(tagTree.nav))

\* The navigations a schema node authorizes below the navigation nav: a
\* static node its name, a wildcard every id, each followed by what the
\* children authorize; the siblings of a node stand beside it.
RECURSIVE AuthorizedNavs(_, _)
AuthorizedNavs(schema, nav) ==
  IF schema = Undefined THEN {}
  ELSE LET own == IF schema.tag = "at"
                  THEN {Append(nav, GetStep(schema.name))}
                  ELSE {Append(nav, CallStep(id)) : id \in TreeIds}
           below == UNION {AuthorizedNavs(schema.children, p) : p \in own}
           beside == IF schema.siblings = Undefined THEN {}
                     ELSE UNION {AuthorizedNavs(schema.siblings[k], nav) :
                                   k \in DOMAIN schema.siblings}
       IN own \cup below \cup beside

\* The node navigation nav reaches from node, or Undefined.
RECURSIVE Walk(_, _)
Walk(node, nav) ==
  IF nav = <<>> THEN node
  ELSE LET step == Head(nav)
       IN IF step.op = "get"
          THEN IF step.seg \in DOMAIN node.props
                  /\ node.props[step.seg].kind = "node"
               THEN Walk(node.props[step.seg], Tail(nav))
               ELSE Undefined
          ELSE IF node.fn # Null
               THEN Walk(wildFn(node.fn, step.seg), Tail(nav))
               ELSE Undefined

\* C30: for every path the schema authorizes, the navigation of the tree
\* along it reaches a node that carries the path as its __path.
C30_AuthorizedReachable ==
  tagTree.pc = "tree"
  => \A nav \in AuthorizedNavs(tagTree.schema, <<>>) :
       /\ Walk(tagTree.root, nav) # Undefined
       /\ CarriesPath(Walk(tagTree.root, nav), Segments(nav))

\* C31: calls of one cached query of the deprecated client issued with the
\* same arguments while no entry is cached and an earlier call has not yet
\* returned invoke no loader of their own: the loader runs once for all.
C31_ClientCoalesces ==
  \A d \in Calls :
    (call[d].during # 0 /\ call[d].cacheKey \notin DOMAIN cache)
      => call[d].pc # "cload"

\* A background task of call c is running (loader, write or report pending).
TaskRunning(c) == bg[c].pc \in {"load", "set", "report"}

\* C32 (as stated): whenever a background task is running its loader, the
\* query that spawned it has already released its coalescer entry.
C32_ReleasedBeforeLoader ==
  \A c \in Calls :
    bg[c].pc = "load" => InFlightGet(bg[c].cacheKey) # c

\* C32 (amended): while a background task runs, the query that spawned it has
\* either released its coalescer entry, nothing being registered for that call
\* since, or is about to: its release is enabled whatever the task is doing.
C32_TaskHoldsNothing ==
  \A c \in Calls :
    TaskRunning(c) =>
      \/ call[c].pc = "done" /\ InFlightGet(bg[c].cacheKey) # c
      \/ call[c].pc = "settled" /\ ENABLED Release(c)

\* A task is running its loader after the query that spawned it has released.
C32_Witness ==
  \E c \in Calls :
    bg[c].pc = "load" /\ call[c].pc = "done" /\ bg[c].cacheKey \notin DOMAIN inFlight

\* C33 (as stated): a stored entry whose loader was invoked before the write
\* of an invalidation of its tag landed is classified tag-invalidated.
C33_WrittenDuringLoad ==
  \A key \in DOMAIN cache :
    loadEpoch[cache[key].value].done < InvDone
      => isEntryStale(tagInvalidations, cache[key])

\* C33 (amended): a stored entry whose loader was invoked before an invalidate
\* call of its tag read the clock is classified tag-invalidated from the moment
\* that call's write has landed: its created_at is the clock read before the
\* loader was invoked, hence at most the timestamp written.
C33_CalledDuringLoad ==
  \A key \in DOMAIN cache :
    loadEpoch[cache[key].value].called < InvDone
      => isEntryStale(tagInvalidations, cache[key])

\* C33 witness: the loader of the stored entry was invoked before invalidate
\* was called and the entry was written after the invalidation; a later query
\* read the entry within its TTL and is loading synchronously.
C33_Witness ==
  \E key \in DOMAIN cache, c \in Calls :
    /\ cache[key].value > 1
    /\ loadEpoch[cache[key].value].called = 0 /\ InvDone = 1
    /\ call[c].pc = "load" /\ call[c].cacheKey = key
    /\ call[c].cached = cache[key] /\ call[c].seenInv = 1
    /\ cache[key].expiresAt > call[c].now

\* C34: under a non-decreasing clock, a synchronous load that holds a
\* previously read entry holds one whose grace_until is absent or at most the
\* time fetchAndCache read; so no loader or write failure is ever suppressed.
C34_NoSuppression ==
  \A c \in Calls :
    /\ (call[c].pc \in {"load", "set"} /\ call[c].cached # Null)
         => ~GraceUsable(call[c].cached, call[c].fnow)
    /\ call[c].path # "suppressed"

\* C34 witness: a synchronous load holds an entry whose grace has elapsed,
\* and an earlier synchronous load of the key was rejected.
C34_Witness ==
  \E c, d \in Calls :
    /\ call[c].pc \in {"load", "set"} /\ call[c].cached # Null
    /\ call[c].cached.graceUntil # Null
    /\ call[d].pc = "done" /\ call[d].path = "fetch" /\ call[d].result.st = "err"

\* A background refresh of cacheKey is running (loader or write pending).
Refreshing(cacheKey) ==
  { t \in Calls : /\ bg[t].kind = "refresh" /\ bg[t].pc \in {"load", "set"}
                  /\ bg[t].cacheKey = cacheKey }

\* C35 (as stated): a query issued for a key whose background refresh is
\* running is not coalesced: it runs getOrFetch itself, as it must to start a
\* loader invocation of its own.
C35_StartsOwnLoader ==
  [][\A d \in Calls :
       (call[d].pc = "idle" /\ call'[d].pc # "idle"
        /\ Refreshing(call'[d].cacheKey) # {})
         => call'[d].pc = "get"]_vars

\* The entry call d is deciding on in this step, d being in getOrFetch.
Deciding(d) ==
  IF call[d].pc = "stale" THEN call[d].cached ELSE AdapterGet(call[d].cacheKey)

\* C35 (amended): a query that runs getOrFetch itself and decides on the entry
\* a running background refresh is replacing never serves it as a fresh hit
\* and never waits for that refresh: it invokes the loader itself, as another
\* background refresh while the entry's grace lasts, as a synchronous load
\* once it has ended.
C35_OwnLoaderBesideRefresh ==
  [][\A d \in Calls :
       (/\ call[d].pc \in {"get", "stale"} /\ call'[d].pc \notin {"get", "stale"}
        /\ Deciding(d) # Null
        /\ \E t \in Refreshing(call[d].cacheKey) :
             bg[t].cachedValue = Deciding(d).value)
         => /\ call'[d].invoked = 1 /\ loads' = loads + 1
            /\ IF Deciding(d).graceUntil # Null
                  /\ Deciding(d).graceUntil.n > call[d].now
               THEN /\ call'[d].path = "grace"
                    /\ bg'[d].kind = "refresh" /\ bg'[d].pc = "load"
               ELSE call'[d].pc = "load"]_vars

\* C35 witness: two loader invocations for one key are in progress at once, a
\* background refresh and the synchronous load of a later query that read the
\* entry the refresh is replacing.
C35_Witness ==
  \E c, d \in Calls :
    /\ bg[c].kind = "refresh" /\ bg[c].pc = "load"
    /\ call[d].pc = "load" /\ call[d].cacheKey = bg[c].cacheKey
    /\ call[d].cached # Null /\ call[d].cached.value = bg[c].cachedValue

\* C36: the step in which a load's adapter.set returns stores the entry of
\* that load, whatever entry the key held: the last writer wins, also when
\* its created_at is older than that of the entry it replaces.
C36_LastWriterWins ==
  [][\A c \in Calls :
       /\ (call[c].pc = "set" /\ call'[c].pc = "settled" /\ call'[c].outcome.st = "ok")
            => /\ call[c].cacheKey \in DOMAIN cache'
               /\ cache'[call[c].cacheKey] =
                    NewEntry(call[c].value, call[c].opts, call[c].fnow)
       /\ (bg[c].pc = "set" /\ bg'[c].pc = "done")
            => /\ bg[c].cacheKey \in DOMAIN cache'
               /\ cache'[bg[c].cacheKey] =
                    NewEntry(bg[c].value, bg[c].opts, bg[c].fnow)]_vars

\* C36 witness: a background refresh started at time 1 (loader invocation 2)
\* wrote last: its entry, created_at 1, is stored although the synchronous
\* load of a later query (invocation 3, begun once the grace of the first
\* entry had ended at time 2) had already stored and returned its value.
C36_Witness ==
  \E c, d \in Calls, key \in DOMAIN cache :
    /\ c # d /\ call[c].cacheKey = key /\ call[d].cacheKey = key
    /\ bg[c].kind = "refresh" /\ bg[c].pc = "done"
    /\ call[c].result = Fulfilled(1) /\ call[c].path = "grace"
    /\ call[d].pc = "done" /\ call[d].path = "fetch" /\ call[d].result = Fulfilled(3)
    /\ cache[key].value = 2 /\ cache[key].createdAt = 1

\* Call c is a completer that has registered and not yet released.
Registered(c) == call[c].pc \in {"get", "stale", "load", "set", "settled"}

\* C37: the coalescer holds, per cache key, the one completer that has
\* registered for the key and not yet released, and nothing else; so a
\* completer about to release finds its own registration under its key.
C37_CoalescerInvariant ==
  /\ \A key \in DOMAIN inFlight :
       Registered(inFlight[key]) /\ call[inFlight[key]].cacheKey = key
  /\ \A c \in Calls : Registered(c) => InFlightGet(call[c].cacheKey) = c

\* C37 witness: a completer has released, and a later query of the same key
\* is registered and about to release.
C37_Witness ==
  \E c, d \in Calls :
    /\ c # d /\ call[c].pc = "done" /\ call[c].prom = c
    /\ call[d].cacheKey = call[c].cacheKey /\ call[d].pc = "settled"
    /\ InFlightGet(call[d].cacheKey) = d

\* C38: when every storage call and loader invocation completes, every query
\* call that was issued, completer or joiner, eventually returns or raises;
\* and whenever no query call is running the coalescer is empty.
C38_AllReturn ==
  /\ \A c \in Calls : (call[c].pc # "idle") ~> (call[c].pc = "done")
  /\ [](( \A c \in Calls : call[c].pc \in {"idle", "done"} ) => inFlight = EmptyMap)

\* C38 witness: a completer and the joiner of its load have both raised the
\* loader's error, no call is running and the coalescer is empty.
C38_Witness ==
  \E c, d \in Calls :
    /\ c # d /\ call[c].prom = c /\ call[d].prom = c
    /\ call[c].pc = "done" /\ call[d].pc = "done"
    /\ call[c].result.st = "err" /\ call[d].result = call[c].result
    /\ inFlight = EmptyMap

\* C39: on one entry and one table of tag-invalidation timestamps the check
\* of the engine's query, the check of primitives.get and the loop of the
\* earlier get, which reads the prefixes before the exact marker, return the
\* same boolean.
C39_ChecksAgree ==
  \A c \in Calls :
    call[c].pc = "compared"
      => /\ call[c].result = call[c].outcome
         /\ call[c].idx = call[c].outcome.v

\* C39 witness: the entry carries two tags and only the exact marker of the
\* second was invalidated, which the two orders read at different positions;
\* all three checks returned true.
C39_Witness ==
  \E c \in Calls :
    /\ call[c].pc = "compared"
    /\ call[c].cached.tags = << <<SegA, SegB>>, <<SegB>> >>
    /\ DOMAIN tagInvalidations = {serializeTag(ExactTag(<<SegB>>))}
    /\ call[c].outcome = Flag(TRUE) /\ call[c].result = Flag(TRUE) /\ call[c].idx = 1

\* The number of loader invocations made by the calls of S.
RECURSIVE InvokedBy(_)
InvokedBy(S) ==
  IF S = {} THEN 0
  ELSE LET c == CHOOSE x \in S : TRUE IN call[c].invoked + InvokedBy(S \ {c})

\* C40: every loader invocation of the engine is made by one query call, a
\* call makes at most one (synchronous load, background refresh or
\* verification), a joiner makes none, and a call whose loader failed has made
\* exactly that one.
C40_OneLoaderPerCall ==
  /\ loads = InvokedBy(Calls)
  /\ \A c \in Calls :
       /\ call[c].invoked <= 1
       /\ call[c].prom \notin {0, c} => call[c].invoked = 0
       /\ (call[c].outcome.st = "err" \/ bg[c].pc = "failed") => call[c].invoked = 1

\* C40 witness: the loader of a completer failed; the completer and its
\* joiner have both raised, and the loader was invoked once in all.
C40_Witness ==
  \E c, d \in Calls :
    /\ call[c].pc = "done" /\ call[c].prom = c /\ call[c].path = "fetch"
    /\ call[c].result.st = "err" /\ call[c].invoked = 1
    /\ call[d].pc = "done" /\ call[d].prom = c /\ d # c /\ call[d].invoked = 0
    /\ loads = 1

====
